---- MODULE Spec2Model ----
(***************************************************************************)
(* A model of emu80.py, an emulator for the Intel 8080A microprocessor.    *)
(*                                                                         *)
(* The emulator keeps its machine in module-level globals (regs, flags,    *)
(* memory, port, periods, ...).  Each opcode handler instruction_XX is     *)
(* modelled as an operator from a machine record to a machine record; the  *)
(* actions are the monitor's commands and the fetch/dispatch steps of      *)
(* execute_single and execute_program.                                     *)
(*                                                                         *)
(* memory is the 65536-cell list of the source, kept sparse: only the      *)
(* non-zero cells are in the function's domain, every other cell reads 0   *)
(* (the list is created as [0] * 2**16).  A Python list index beyond the   *)
(* last cell raises IndexError; nothing in the instruction handlers        *)
(* catches it, so it ends the process: the machine's crashed field.        *)
(***************************************************************************)
EXTENDS Integers, Sequences, FiniteSets, TLC

VARIABLES
    regs,         \* register file: A B C D E H L PC SP RIM SIM
    flags,        \* S Z K AC P V CY
    memory,       \* sparse image of the 64 KiB list
    port,         \* sparse image of the 256-entry list
    periods,      \* cycle counter
    invalid,      \* set by an undefined opcode
    breakpoint,   \* -1 when no breakpoint is set
    column,       \* console column
    single_step,  \* 1 while execute_single runs a handler
    fload,        \* FLOUT: a "$SIZE " request awaits its file name
    fname,        \* FLOUT: the pending file name
    fsize,        \* FLOUT: line count of the pending file, plus one
    fline,        \* FLOUT: next line a "$READ " returns
    disk,         \* the host's files: name -> lines, as readlines() gives them
    crashed,      \* an exception escaped the monitor loop
    running,      \* inside the while loop of execute_program
    shown,        \* the PSW digits the last R command printed
    hist,         \* the opcodes executed so far, each with the machine before it
    limit,        \* how many opcodes this behaviour may execute
    cl,           \* the list command_list() made of the last command line
    exit_status   \* << >> while the process lives, then << its exit code >>

vars == << regs, flags, memory, port, periods, invalid, breakpoint, column,
           single_step, fload, fname, fsize, fline, disk, crashed, running,
           shown, hist, limit, cl, exit_status >>

-----------------------------------------------------------------------------
(* Bounds of the model.                                                    *)

\* Number of opcodes a behaviour executes in the engine scenarios.
MaxSteps == 1

\* Number of opcodes a behaviour executes in the ALU scenarios.
MaxAluSteps == 1

\* Number of opcodes a behaviour executes in the stack scenarios.
MaxStackSteps == 2

\* Opcodes executed in a register-pair scenario
MaxPairSteps == 2

\* Opcodes executed in a call scenario
MaxCallSteps == 2

\* Opcodes executed in a run scenario
MaxRunSteps == 2

\* Opcodes executed in a port scenario
MaxPortSteps == 3

\* Lines of a HEX file
MaxLines == 3

-----------------------------------------------------------------------------
(* Integer helpers: Python's bit operators on non-negative integers.       *)

RECURSIVE BitAnd(_, _)
BitAnd(x, y) ==
    IF x = 0 \/ y = 0 THEN 0
    ELSE (IF x % 2 = 1 /\ y % 2 = 1 THEN 1 ELSE 0) + 2 * BitAnd(x \div 2, y \div 2)

RECURSIVE BitOr(_, _)
BitOr(x, y) ==
    IF x = 0 THEN y
    ELSE IF y = 0 THEN x
    ELSE (IF x % 2 = 1 \/ y % 2 = 1 THEN 1 ELSE 0) + 2 * BitOr(x \div 2, y \div 2)

RECURSIVE BitXor(_, _)
BitXor(x, y) ==
    IF x = 0 THEN y
    ELSE IF y = 0 THEN x
    ELSE (IF x % 2 # y % 2 THEN 1 ELSE 0) + 2 * BitXor(x \div 2, y \div 2)

\* Number of 1 bits of a non-negative integer.
RECURSIVE PopCount(_)
PopCount(n) == IF n = 0 THEN 0 ELSE (n % 2) + PopCount(n \div 2)

-----------------------------------------------------------------------------
(* The memory and port lists.                                              *)

MemSize == 65536

\* A Python list index: negative indices count from the end.
Index(a) == IF a < 0 THEN a + MemSize ELSE a

\* memory[a] raises IndexError for these indices.
OutOfRange(a) == a > MemSize - 1 \/ a < 0 - MemSize

\* memory[a], for an index in range.
Rd(mem, a) == IF Index(a) \in DOMAIN mem THEN mem[Index(a)] ELSE 0

\* memory[a] = v, for an index in range.
Wr(mem, a, v) ==
    IF v = 0
    THEN [x \in (DOMAIN mem) \ {Index(a)} |-> mem[x]]
    ELSE [x \in (DOMAIN mem) \cup {Index(a)} |-> IF x = Index(a) THEN v ELSE mem[x]]

\* port[d] and port[d] = v; the operand byte d of IN and OUT.
PortRd(p, d) == IF d \in DOMAIN p THEN p[d] ELSE 0

PortWr(p, d, v) ==
    IF v = 0
    THEN [x \in (DOMAIN p) \ {d} |-> p[x]]
    ELSE [x \in (DOMAIN p) \cup {d} |-> IF x = d THEN v ELSE p[x]]

PortOutOfRange(d) == d > 255 \/ d < 0 - 256

-----------------------------------------------------------------------------
(* The machine as one record, and its hand-over to the variables.          *)

Machine ==
    [ regs |-> regs, flags |-> flags, memory |-> memory, port |-> port,
      periods |-> periods, invalid |-> invalid, column |-> column,
      single_step |-> single_step, fload |-> fload, fname |-> fname,
      fsize |-> fsize, fline |-> fline, disk |-> disk, crashed |-> crashed ]

Becomes(m) ==
    /\ regs' = m.regs
    /\ flags' = m.flags
    /\ memory' = m.memory
    /\ port' = m.port
    /\ periods' = m.periods
    /\ invalid' = m.invalid
    /\ column' = m.column
    /\ single_step' = m.single_step
    /\ fload' = m.fload
    /\ fname' = m.fname
    /\ fsize' = m.fsize
    /\ fline' = m.fline
    /\ disk' = m.disk
    /\ crashed' = m.crashed

\* An uncaught exception inside a handler: what the handler had already
\* assigned stays assigned, the rest of the handler never runs.
Raise(m) == [m EXCEPT !.crashed = TRUE]

\* The trace line of a handler, printed only in single-step mode, formats the
\* n operand bytes memory[PC+1..PC+n] before the handler does anything else.
TraceRaises(m, n) == m.single_step = 1 /\ OutOfRange(m.regs.PC + n)

\* regs['PC'] = (regs['PC'] + n) & 65535 and periods += t
Advance(m, n, t) ==
    [m EXCEPT !.regs.PC = (m.regs.PC + n) % 65536, !.periods = @ + t]

\* 256*regs[hi] + regs[lo]
Pair(m, hi, lo) == 256 * m.regs[hi] + m.regs[lo]

-----------------------------------------------------------------------------
(* Opcode handlers 00..3F.                                                 *)

\* set_flags_ZSP with the sign taken from n > 128: 80H would count as positive
ZSPSignAbove128(m, n) ==
    [m EXCEPT !.flags.Z = IF n = 0 THEN 1 ELSE 0,
              !.flags.S = IF n > 128 THEN 1 ELSE 0,
              !.flags.P = IF PopCount(n) % 2 = 0 THEN 1 ELSE 0]

\* Set zero, sign, parity flags.  The loop of the source flips parity once
\* for every 1 bit of n: n & (n - 1) clears the lowest one.
set_flags_ZSP(m, n) ==
    [m EXCEPT !.flags.Z = IF n = 0 THEN 1 ELSE 0,
              !.flags.S = IF n > 127 THEN 1 ELSE 0,
              !.flags.P = IF PopCount(n) % 2 = 0 THEN 1 ELSE 0]

\* instruction_00 NOP, and DI / EI (F3, FB), which are the same handler
NOP(m) == Advance(m, 1, 4)

\* What an 8080 does with an opcode it has no instruction for: a NOP
UndefinedAsNOP(m) == Advance(m, 1, 4)

\* instruction_08, 18, 20, 28, 30, 38, CB, D9, DD, ED, FD
Undefined(m) == [m EXCEPT !.invalid = TRUE]

\* LXI B / D / H: the low register is assigned before the high operand byte
\* is read
LXI(m, hi, lo) ==
    LET pc == m.regs.PC IN
    IF TraceRaises(m, 2) \/ OutOfRange(pc + 1) THEN Raise(m)
    ELSE IF OutOfRange(pc + 2)
         THEN Raise([m EXCEPT !.regs[lo] = Rd(m.memory, pc + 1)])
    ELSE Advance([m EXCEPT !.regs[lo] = Rd(m.memory, pc + 1),
                           !.regs[hi] = Rd(m.memory, pc + 2)], 3, 10)

\* LXI SP
instruction_31(m) ==
    LET pc == m.regs.PC IN
    IF OutOfRange(pc + 1) \/ OutOfRange(pc + 2) THEN Raise(m)
    ELSE Advance([m EXCEPT !.regs.SP = Rd(m.memory, pc + 1)
                                       + 256 * Rd(m.memory, pc + 2)], 3, 10)

\* STAX B / D
STAX(m, hi, lo) ==
    IF OutOfRange(Pair(m, hi, lo)) THEN Raise(m)
    ELSE Advance([m EXCEPT !.memory = Wr(m.memory, Pair(m, hi, lo), m.regs.A)], 1, 7)

\* LDAX B / D
LDAX(m, hi, lo) ==
    IF OutOfRange(Pair(m, hi, lo)) THEN Raise(m)
    ELSE Advance([m EXCEPT !.regs.A = Rd(m.memory, Pair(m, hi, lo))], 1, 7)

\* An INX that treats its result as INR does: Z, S and P of the low byte
INXSetsZSP(m, hi, lo) ==
    LET v == Pair(m, hi, lo) + 1
        w == IF v > 65535 THEN 0 ELSE v
    IN  Advance(set_flags_ZSP([m EXCEPT !.flags.K = IF v > 65535 THEN 1 ELSE 0,
                                        !.regs[hi] = w \div 256,
                                        !.regs[lo] = w % 256], w % 256), 1, 5)

\* INX B / D / H
INX(m, hi, lo) ==
    LET v == Pair(m, hi, lo) + 1
        w == IF v > 65535 THEN 0 ELSE v
    IN  Advance([m EXCEPT !.flags.K = IF v > 65535 THEN 1 ELSE 0,
                          !.regs[hi] = w \div 256,
                          !.regs[lo] = w % 256], 1, 5)

\* A DCX that takes K for a zero flag: set when the pair reaches 0000H
DCXKOnZero(m, hi, lo) ==
    LET v == Pair(m, hi, lo) - 1
        w == IF v < 0 THEN 65535 ELSE v
    IN  Advance([m EXCEPT !.flags.K = IF w = 0 THEN 1 ELSE 0,
                          !.regs[hi] = w \div 256,
                          !.regs[lo] = w % 256], 1, 5)

\* DCX B / D / H
DCX(m, hi, lo) ==
    LET v == Pair(m, hi, lo) - 1
        w == IF v < 0 THEN 65535 ELSE v
    IN  Advance([m EXCEPT !.flags.K = IF v < 0 THEN 1 ELSE 0,
                          !.regs[hi] = w \div 256,
                          !.regs[lo] = w % 256], 1, 5)

\* INX SP
instruction_33(m) ==
    LET sp == m.regs.SP + 1 IN
    Advance([m EXCEPT !.flags.K = IF sp > 65535 THEN 1 ELSE 0,
                      !.regs.SP = IF sp > 65535 THEN 0 ELSE sp], 1, 5)

\* DCX SP
instruction_3B(m) ==
    LET sp == m.regs.SP - 1 IN
    Advance([m EXCEPT !.flags.K = IF sp < 0 THEN 1 ELSE 0,
                      !.regs.SP = IF sp < 0 THEN 65535 ELSE sp], 1, 5)

\* The result of INR: i = r + 1, 0 when above 255
IncByte(v) == IF v + 1 > 255 THEN 0 ELSE v + 1

\* The result of DCR: i = r - 1, 255 when below 0
DecByte(v) == IF v - 1 < 0 THEN 255 ELSE v - 1

\* INR B, C, D, E, H, L, A
INR(m, r) ==
    LET i == IncByte(m.regs[r]) IN
    Advance([set_flags_ZSP([m EXCEPT !.regs[r] = i], i)
                EXCEPT !.flags.AC = IF i % 16 = 0 THEN 1 ELSE 0], 1, 5)

\* DCR B, C, D, E, H, L, A
DCR(m, r) ==
    LET i == DecByte(m.regs[r]) IN
    Advance([set_flags_ZSP([m EXCEPT !.regs[r] = i], i)
                EXCEPT !.flags.AC = IF i % 16 = 15 THEN 1 ELSE 0], 1, 5)

\* INR M
instruction_34(m) ==
    LET hl == Pair(m, "H", "L")
        i == IncByte(Rd(m.memory, hl))
    IN  IF OutOfRange(hl) THEN Raise(m)
        ELSE Advance([set_flags_ZSP([m EXCEPT !.memory = Wr(m.memory, hl, i)], i)
                        EXCEPT !.flags.AC = IF i % 16 = 0 THEN 1 ELSE 0], 1, 10)

\* DCR M
instruction_35(m) ==
    LET hl == Pair(m, "H", "L")
        i == DecByte(Rd(m.memory, hl))
    IN  IF OutOfRange(hl) THEN Raise(m)
        ELSE Advance([set_flags_ZSP([m EXCEPT !.memory = Wr(m.memory, hl, i)], i)
                        EXCEPT !.flags.AC = IF i % 16 = 15 THEN 1 ELSE 0], 1, 10)

\* MVI B, C, D, E, H, L, A
MVI(m, r) ==
    LET pc == m.regs.PC IN
    IF OutOfRange(pc + 1) THEN Raise(m)
    ELSE Advance([m EXCEPT !.regs[r] = Rd(m.memory, pc + 1)], 2, 7)

\* MVI M
instruction_36(m) ==
    LET pc == m.regs.PC
        hl == Pair(m, "H", "L")
    IN  IF OutOfRange(pc + 1) \/ OutOfRange(hl) THEN Raise(m)
        ELSE Advance([m EXCEPT !.memory = Wr(m.memory, hl, Rd(m.memory, pc + 1))], 2, 10)

\* RLC
instruction_07(m) ==
    LET i == 2 * m.regs.A IN
    Advance([m EXCEPT !.regs.A = (i % 256) + (i \div 256),
                      !.flags.CY = i \div 256], 1, 4)

\* RRC
instruction_0F(m) ==
    LET cy == m.regs.A % 2 IN
    Advance([m EXCEPT !.flags.CY = cy,
                      !.regs.A = (m.regs.A \div 2) + 128 * cy], 1, 4)

\* RAL
instruction_17(m) ==
    LET i == 2 * m.regs.A IN
    Advance([m EXCEPT !.regs.A = (i % 256) + m.flags.CY,
                      !.flags.CY = i \div 256], 1, 4)

\* RAR
instruction_1F(m) ==
    Advance([m EXCEPT !.flags.CY = m.regs.A % 2,
                      !.regs.A = (m.regs.A \div 2) + m.flags.CY * 128], 1, 4)

\* ARHL (undocumented)
instruction_10(m) ==
    Advance([m EXCEPT !.flags.CY = m.regs.L % 2,
                      !.regs.L = (m.regs.L \div 2) + 128 * (m.regs.H % 2),
                      !.regs.H = (m.regs.H \div 2) + BitAnd(m.regs.H, 128)], 1, 7)

\* A DAD whose carry is bit 15 of the sum, the sign of the 16-bit result
DADSumCarry15(m, i) ==
    Advance([m EXCEPT !.flags.CY = (i \div 32768) % 2,
                      !.regs.H = (i % 65536) \div 256,
                      !.regs.L = (i % 65536) % 256], 1, 10)

\* The tail shared by the four DAD handlers, i the unbounded sum
DADSum(m, i) ==
    Advance([m EXCEPT !.flags.CY = i \div 65536,
                      !.regs.H = (i % 65536) \div 256,
                      !.regs.L = (i % 65536) % 256], 1, 10)

\* DAD B / D
DAD(m, hi, lo) == DADSum(m, Pair(m, "H", "L") + Pair(m, hi, lo))

\* DAD H
instruction_29(m) == DADSum(m, 2 * Pair(m, "H", "L"))

\* DAD SP
instruction_39(m) == DADSum(m, Pair(m, "H", "L") + m.regs.SP)

\* The address operand memory[PC+1] + 256*memory[PC+2]
Operand16(m) == Rd(m.memory, m.regs.PC + 1) + 256 * Rd(m.memory, m.regs.PC + 2)

\* Reading the address operand raises IndexError
Operand16Raises(m) == OutOfRange(m.regs.PC + 1) \/ OutOfRange(m.regs.PC + 2)

\* SHLD Adr: memory[i] is written before memory[i+1] is indexed
instruction_22(m) ==
    LET i == Operand16(m) IN
    IF Operand16Raises(m) \/ OutOfRange(i) THEN Raise(m)
    ELSE IF OutOfRange(i + 1)
         THEN Raise([m EXCEPT !.memory = Wr(m.memory, i, m.regs.L)])
    ELSE Advance([m EXCEPT !.memory = Wr(Wr(m.memory, i, m.regs.L), i + 1, m.regs.H)],
                 3, 16)

\* LHLD Adr: L is assigned before memory[i+1] is indexed
instruction_2A(m) ==
    LET i == Operand16(m) IN
    IF Operand16Raises(m) \/ OutOfRange(i) THEN Raise(m)
    ELSE IF OutOfRange(i + 1)
         THEN Raise([m EXCEPT !.regs.L = Rd(m.memory, i)])
    ELSE Advance([m EXCEPT !.regs.L = Rd(m.memory, i),
                           !.regs.H = Rd(m.memory, i + 1)], 3, 16)

\* STA Adr
instruction_32(m) ==
    IF Operand16Raises(m) \/ OutOfRange(Operand16(m)) THEN Raise(m)
    ELSE Advance([m EXCEPT !.memory = Wr(m.memory, Operand16(m), m.regs.A)], 3, 13)

\* LDA Adr
instruction_3A(m) ==
    IF Operand16Raises(m) \/ OutOfRange(Operand16(m)) THEN Raise(m)
    ELSE Advance([m EXCEPT !.regs.A = Rd(m.memory, Operand16(m))], 3, 13)

\* DAA: no flag but AC and CY is touched, and neither is ever cleared
instruction_27(m) ==
    LET ln == m.regs.A % 16
        a1 == IF ln > 9 \/ m.flags.AC = 1 THEN m.regs.A + 6 ELSE m.regs.A
        hn == a1 \div 16
        a2 == IF hn > 9 \/ m.flags.CY = 1 THEN (a1 + 96) % 256 ELSE a1
    IN  Advance([m EXCEPT !.regs.A = a2,
                          !.flags.AC = IF ln > 9 THEN 1 ELSE @,
                          !.flags.CY = IF hn > 9 THEN 1 ELSE @], 1, 4)

\* CMA
instruction_2F(m) == Advance([m EXCEPT !.regs.A = 255 - (m.regs.A % 256)], 1, 4)

\* STC
instruction_37(m) == Advance([m EXCEPT !.flags.CY = 1], 1, 4)

\* CMC
instruction_3F(m) ==
    Advance([m EXCEPT !.flags.CY = IF m.flags.CY = 0 THEN 1 ELSE 0], 1, 4)

-----------------------------------------------------------------------------
(* Opcode handlers 40..BF: MOV, HLT and the register/memory ALU group.     *)

\* The operand named by bits 0..2 (source) or 3..5 (destination) of an opcode
RegName(k) == << "B", "C", "D", "E", "H", "L", "M", "A" >>[k + 1]

\* The value of a source operand: a register, or memory[256*H + L]
Src(m, s) == IF s = "M" THEN Rd(m.memory, Pair(m, "H", "L")) ELSE m.regs[s]

\* Cycles of a register (4) or memory (7) form of an ALU opcode
AluPeriods(s) == IF s = "M" THEN 7 ELSE 4

\* MOV d,s (40..7F but 76).  MOV r,r of a register onto itself assigns nothing.
MOV(m, d, s) ==
    IF (d = "M" \/ s = "M") /\ OutOfRange(Pair(m, "H", "L")) THEN Raise(m)
    ELSE IF d = "M"
         THEN Advance([m EXCEPT !.memory = Wr(m.memory, Pair(m, "H", "L"), m.regs[s])], 1, 7)
    ELSE IF s = "M"
         THEN Advance([m EXCEPT !.regs[d] = Rd(m.memory, Pair(m, "H", "L"))], 1, 7)
    ELSE Advance([m EXCEPT !.regs[d] = m.regs[s]], 1, 5)

\* HLT
instruction_76(m) == Advance(m, 1, 7)

\* The body shared by ADD, ADC, ADI and ACI: b the operand, c the carry added
\* to both sums, n the opcode's length, t its cycles.
\*   i = A + b + c;  j = (A & 15) + (b & 15) + c
AddBody(m, b, c, n, t) ==
    LET i == m.regs.A + b + c
        j == (m.regs.A % 16) + (b % 16) + c
    IN  Advance([set_flags_ZSP([m EXCEPT !.regs.A = i % 256], i % 256)
                    EXCEPT !.flags.CY = i \div 256,
                           !.flags.AC = j \div 16], n, t)

\* A subtraction whose nibble difference forgets the borrow:
\*   j = (A & 15) - (b & 15)
SubBodyNibbleNoBorrow(m, b, c, n, t) ==
    LET i == m.regs.A - b - c
        j == (m.regs.A % 16) - (b % 16)
    IN  Advance([set_flags_ZSP([m EXCEPT !.regs.A = i % 256], i % 256)
                    EXCEPT !.flags.CY = IF i < 0 THEN 1 ELSE 0,
                           !.flags.AC = IF j < 0 THEN 1 ELSE 0], n, t)

\* The body shared by SUB, SBB, SUI and SBI
\*   i = A - b - c;  j = (A & 15) - (b & 15) - c
SubBody(m, b, c, n, t) ==
    LET i == m.regs.A - b - c
        j == (m.regs.A % 16) - (b % 16) - c
    IN  Advance([set_flags_ZSP([m EXCEPT !.regs.A = i % 256], i % 256)
                    EXCEPT !.flags.CY = IF i < 0 THEN 1 ELSE 0,
                           !.flags.AC = IF j < 0 THEN 1 ELSE 0], n, t)

\* The body shared by CMP and CPI: the flags of a subtraction, A untouched
CmpBody(m, b, n, t) ==
    LET i == m.regs.A - b
        j == (m.regs.A % 16) - (b % 16)
    IN  Advance([set_flags_ZSP(m, i % 256)
                    EXCEPT !.flags.CY = IF i < 0 THEN 1 ELSE 0,
                           !.flags.AC = IF j < 0 THEN 1 ELSE 0], n, t)

\* The body shared by ANA/ANI, XRA/XRI and ORA/ORI, r the new A
LogicBody(m, r, n, t) ==
    Advance([set_flags_ZSP([m EXCEPT !.regs.A = r], r)
                EXCEPT !.flags.CY = 0, !.flags.AC = 0], n, t)

\* A memory operand whose address 256*H + L is no index of the list
SrcRaises(m, s) == s = "M" /\ OutOfRange(Pair(m, "H", "L"))

\* ADD s (80..87)
ADD(m, s) ==
    IF SrcRaises(m, s) THEN Raise(m)
    ELSE AddBody(m, Src(m, s), 0, 1, AluPeriods(s))

\* ADC s (88..8F)
ADC(m, s) ==
    IF SrcRaises(m, s) THEN Raise(m)
    ELSE AddBody(m, Src(m, s), m.flags.CY, 1, AluPeriods(s))

\* SUB s (90..97)
SUB(m, s) ==
    IF SrcRaises(m, s) THEN Raise(m)
    ELSE SubBody(m, Src(m, s), 0, 1, AluPeriods(s))

\* SBB s (98..9F)
SBB(m, s) ==
    IF SrcRaises(m, s) THEN Raise(m)
    ELSE SubBody(m, Src(m, s), m.flags.CY, 1, AluPeriods(s))

\* ANA s (A0..A7)
ANA(m, s) ==
    IF SrcRaises(m, s) THEN Raise(m)
    ELSE LogicBody(m, BitAnd(m.regs.A, Src(m, s)), 1, AluPeriods(s))

\* XRA s (A8..AF)
XRA(m, s) ==
    IF SrcRaises(m, s) THEN Raise(m)
    ELSE LogicBody(m, BitXor(m.regs.A, Src(m, s)), 1, AluPeriods(s))

\* ORA s (B0..B7)
ORA(m, s) ==
    IF SrcRaises(m, s) THEN Raise(m)
    ELSE LogicBody(m, BitOr(m.regs.A, Src(m, s)), 1, AluPeriods(s))

\* CMP s (B8..BF)
CMP(m, s) ==
    IF SrcRaises(m, s) THEN Raise(m)
    ELSE CmpBody(m, Src(m, s), 1, AluPeriods(s))

\* The immediate operand D8 = memory[PC+1]
Operand8(m) == Rd(m.memory, m.regs.PC + 1)

\* ADI D8
instruction_C6(m) ==
    IF OutOfRange(m.regs.PC + 1) THEN Raise(m)
    ELSE AddBody(m, Operand8(m), 0, 2, 7)

\* ACI D8: the carry is added to the operand, D8 = memory[PC+1] + CY, before
\* either sum is formed
instruction_CE(m) ==
    IF OutOfRange(m.regs.PC + 1) THEN Raise(m)
    ELSE AddBody(m, Operand8(m) + m.flags.CY, 0, 2, 7)

\* SUI D8
instruction_D6(m) ==
    IF OutOfRange(m.regs.PC + 1) THEN Raise(m)
    ELSE SubBody(m, Operand8(m), 0, 2, 7)

\* SBI D8
instruction_DE(m) ==
    IF OutOfRange(m.regs.PC + 1) THEN Raise(m)
    ELSE SubBody(m, Operand8(m), m.flags.CY, 2, 7)

\* ANI D8
instruction_E6(m) ==
    IF OutOfRange(m.regs.PC + 1) THEN Raise(m)
    ELSE LogicBody(m, BitAnd(m.regs.A, Operand8(m)), 2, 4)

\* XRI D8
instruction_EE(m) ==
    IF OutOfRange(m.regs.PC + 1) THEN Raise(m)
    ELSE LogicBody(m, BitXor(m.regs.A, Operand8(m)), 2, 4)

\* ORI D8
instruction_F6(m) ==
    IF OutOfRange(m.regs.PC + 1) THEN Raise(m)
    ELSE LogicBody(m, BitOr(m.regs.A, Operand8(m)), 2, 4)

\* CPI D8
instruction_FE(m) ==
    IF OutOfRange(m.regs.PC + 1) THEN Raise(m)
    ELSE CmpBody(m, Operand8(m), 2, 7)

-----------------------------------------------------------------------------
(* Opcode handlers C0..FF: returns, jumps, calls, stack, I/O.              *)

\* The condition tested by bits 3..5 of Rcc, Jcc and Ccc:
\* NZ, Z, NC, C, PO, PE, P, M
Cond(m, c) ==
    CASE c = 0 -> m.flags.Z = 0
      [] c = 1 -> m.flags.Z = 1
      [] c = 2 -> m.flags.CY = 0
      [] c = 3 -> m.flags.CY = 1
      [] c = 4 -> m.flags.P = 0
      [] c = 5 -> m.flags.P = 1
      [] c = 6 -> m.flags.S = 0
      [] c = 7 -> m.flags.S = 1

\* periods += in the taken branch of Rcc, by condition (RP adds 12)
RccTaken(c) == IF c = 6 THEN 12 ELSE 11

\* periods += after the if of Rcc, by condition (RP adds 6)
RccAlways(c) == IF c = 6 THEN 6 ELSE 5

\* Rcc (C0, C8, D0, D8, E0, E8, F0, F8): sp += 1 twice, with no mask
Rcc(m, c) ==
    LET sp == m.regs.SP IN
    IF Cond(m, c)
    THEN IF OutOfRange(sp) \/ OutOfRange(sp + 1) THEN Raise(m)
         ELSE [m EXCEPT !.regs.PC = Rd(m.memory, sp) + 256 * Rd(m.memory, sp + 1),
                        !.regs.SP = sp + 2,
                        !.periods = @ + RccTaken(c) + RccAlways(c)]
    ELSE Advance(m, 1, RccAlways(c))

\* RET
instruction_C9(m) ==
    LET sp == m.regs.SP
        sp1 == (sp + 1) % 65536
    IN  IF OutOfRange(sp) THEN Raise(m)
        ELSE [m EXCEPT !.regs.PC = Rd(m.memory, sp) + 256 * Rd(m.memory, sp1),
                       !.regs.SP = (sp1 + 1) % 65536,
                       !.periods = @ + 10]

\* A POP that fills the pair in the order PUSH wrote it: high byte first
POPHighFirst(m, hi, lo) ==
    LET sp == m.regs.SP
        sp1 == (sp + 1) % 65536
    IN  IF OutOfRange(sp) THEN Raise(m)
        ELSE Advance([m EXCEPT !.regs[hi] = Rd(m.memory, sp),
                               !.regs[lo] = Rd(m.memory, sp1),
                               !.regs.SP = (sp1 + 1) % 65536], 1, 10)

\* POP B / D / H: the low register is assigned before the second read
POP(m, hi, lo) ==
    LET sp == m.regs.SP
        sp1 == (sp + 1) % 65536
    IN  IF OutOfRange(sp) THEN Raise(m)
        ELSE Advance([m EXCEPT !.regs[lo] = Rd(m.memory, sp),
                               !.regs[hi] = Rd(m.memory, sp1),
                               !.regs.SP = (sp1 + 1) % 65536], 1, 10)

\* A POP PSW that steps SP the way the conditional returns do: sp += 1 with
\* no mask
POPPSWUnmasked(m) ==
    LET sp == m.regs.SP
        i == Rd(m.memory, sp)
    IN  IF OutOfRange(sp) \/ OutOfRange(sp + 1) THEN Raise(m)
        ELSE Advance([m EXCEPT !.flags.S = BitAnd(i, 128) \div 128,
                               !.flags.Z = BitAnd(i, 64) \div 64,
                               !.flags.K = BitAnd(i, 32) \div 32,
                               !.flags.AC = BitAnd(i, 16) \div 16,
                               !.flags.P = BitAnd(i, 4) \div 4,
                               !.flags.V = BitAnd(i, 2) \div 2,
                               !.flags.CY = BitAnd(i, 1),
                               !.regs.A = Rd(m.memory, sp + 1),
                               !.regs.SP = sp + 2], 1, 10)

\* POP PSW
instruction_F1(m) ==
    LET sp == m.regs.SP
        sp1 == (sp + 1) % 65536
        i == Rd(m.memory, sp)
    IN  IF OutOfRange(sp) THEN Raise(m)
        ELSE Advance([m EXCEPT !.flags.S = BitAnd(i, 128) \div 128,
                               !.flags.Z = BitAnd(i, 64) \div 64,
                               !.flags.K = BitAnd(i, 32) \div 32,
                               !.flags.AC = BitAnd(i, 16) \div 16,
                               !.flags.P = BitAnd(i, 4) \div 4,
                               !.flags.V = BitAnd(i, 2) \div 2,
                               !.flags.CY = BitAnd(i, 1),
                               !.regs.A = Rd(m.memory, sp1),
                               !.regs.SP = (sp1 + 1) % 65536], 1, 10)

\* The two stack writes shared by PUSH, CALL, Ccc and RST: first at SP-1,
\* second at SP-2, each index masked to 16 bits, then regs['SP'] = sp
Push2(m, first, second) ==
    LET sp1 == (m.regs.SP - 1) % 65536
        sp2 == (sp1 - 1) % 65536
    IN  [m EXCEPT !.memory = Wr(Wr(m.memory, sp1, first), sp2, second),
                  !.regs.SP = sp2]

\* PUSH B / D / H
PUSH(m, hi, lo) == Advance(Push2(m, m.regs[hi], m.regs[lo]), 1, 11)

\* The flag byte PUSH PSW composes
PSWByte(f) ==
    f.S * 128 + f.Z * 64 + f.K * 32 + f.AC * 16 + f.P * 4 + f.V * 2 + f.CY

\* PUSH PSW
instruction_F5(m) == Advance(Push2(m, m.regs.A, PSWByte(m.flags)), 1, 11)

\* periods += in the taken branch of Jcc (10 for every condition)
JccTaken(c) == 10

\* periods += after the if of Jcc, by condition (JP adds 7)
JccAlways(c) == IF c = 6 THEN 7 ELSE 10

\* Jcc (C2, CA, D2, DA, E2, EA, F2, FA)
Jcc(m, c) ==
    IF TraceRaises(m, 2) THEN Raise(m)
    ELSE IF Cond(m, c)
         THEN IF Operand16Raises(m) THEN Raise(m)
              ELSE [m EXCEPT !.regs.PC = Operand16(m),
                             !.periods = @ + JccTaken(c) + JccAlways(c)]
    ELSE Advance(m, 3, JccAlways(c))

\* periods += in the taken branch of Ccc, by condition (CNZ and CP add 18)
CccTaken(c) == IF c = 0 \/ c = 6 THEN 18 ELSE 17

\* periods += after the if of Ccc, by condition (CNZ and CP add 9)
CccAlways(c) == IF c = 0 \/ c = 6 THEN 9 ELSE 11

\* The return address a call pushes
ReturnAddress(m) == (m.regs.PC + 3) % 65536

\* Ccc (C4, CC, D4, DC, E4, EC, F4, FC): the target is read after the push
Ccc(m, c) ==
    LET pushed == Push2(m, ReturnAddress(m) \div 256, ReturnAddress(m) % 256) IN
    IF TraceRaises(m, 2) THEN Raise(m)
    ELSE IF Cond(m, c)
         THEN IF Operand16Raises(m) THEN Raise(pushed)
              ELSE [pushed EXCEPT !.regs.PC = Operand16(pushed),
                                  !.periods = @ + CccTaken(c) + CccAlways(c)]
    ELSE Advance(m, 3, CccAlways(c))

\* RST n (C7, CF, ..., FF): PC % 256 goes to SP-1, PC // 256 to SP-2, and the
\* new PC is 8, 16, ..., 64
RST(m, n) ==
    [Push2(m, m.regs.PC % 256, m.regs.PC \div 256)
        EXCEPT !.regs.PC = 8 * (n + 1), !.periods = @ + 11]

\* XTHL: memory[SP+1] and memory[SP], not masked
instruction_E3(m) ==
    LET sp == m.regs.SP IN
    IF OutOfRange(sp + 1) \/ OutOfRange(sp) THEN Raise(m)
    ELSE Advance([m EXCEPT !.regs.H = Rd(m.memory, sp + 1),
                           !.regs.L = Rd(m.memory, sp),
                           !.memory = Wr(Wr(m.memory, sp + 1, m.regs.H), sp, m.regs.L)],
                 1, 18)

\* PCHL
instruction_E9(m) ==
    [m EXCEPT !.regs.PC = Pair(m, "H", "L"), !.periods = @ + 5]

\* XCHG
instruction_EB(m) ==
    Advance([m EXCEPT !.regs.H = m.regs.D, !.regs.L = m.regs.E,
                      !.regs.D = m.regs.H, !.regs.E = m.regs.L], 1, 4)

\* SPHL
instruction_F9(m) == Advance([m EXCEPT !.regs.SP = Pair(m, "H", "L")], 1, 5)

\* Width of the display
columns == 80

\* A console that starts a new line one column late
ConsoleColumnLate(col, a) ==
    IF a = 10 THEN col
    ELSE IF a = 13 THEN 1
    ELSE IF col > columns THEN 1 ELSE col + 1

\* The console column after OUT 2 has sent byte a
ConsoleColumn(col, a) ==
    IF a = 10 THEN col
    ELSE IF a = 13 THEN 1
    ELSE IF col + 1 > columns THEN 1 ELSE col + 1

\* OUT D8
instruction_D3(m) ==
    LET d == Operand8(m) IN
    IF OutOfRange(m.regs.PC + 1) \/ PortOutOfRange(d) THEN Raise(m)
    ELSE Advance([m EXCEPT !.port = PortWr(m.port, d % 256, m.regs.A),
                           !.column = IF d = 2 THEN ConsoleColumn(@, m.regs.A) ELSE @],
                 2, 10)

\* An IN without the hook on port 3
INPort3Stored(m) ==
    LET d == Operand8(m) IN
    IF OutOfRange(m.regs.PC + 1) \/ PortOutOfRange(d) THEN Raise(m)
    ELSE Advance([m EXCEPT !.regs.A = PortRd(m.port, d % 256)], 2, 10)

\* IN D8
instruction_DB(m) ==
    LET d == Operand8(m) IN
    IF OutOfRange(m.regs.PC + 1) THEN Raise(m)
    ELSE IF d = 3 THEN Advance([m EXCEPT !.regs.A = 1], 2, 10)
    ELSE IF PortOutOfRange(d) THEN Raise(m)
    ELSE Advance([m EXCEPT !.regs.A = PortRd(m.port, d % 256)], 2, 10)

-----------------------------------------------------------------------------
(* Hardware hooks.  Text is a sequence of code points: ord() and chr() of  *)
(* the source are the identity on them.                                    *)

\* '$SIZE '
MsgSize == << 36, 83, 73, 90, 69, 32 >>

\* '$READ '
MsgRead == << 36, 82, 69, 65, 68, 32 >>

\* ' LINE'
MsgLine == << 32, 76, 73, 78, 69 >>

\* "this is a test\n", the line hook_save writes
SaveText == << 116, 104, 105, 115, 32, 105, 115, 32, 97, 32, 116, 101, 115, 116, 10 >>

\* 0FE03H
KBDBFR == 65027

\* for char in seq: memory[base + ptr] = char.  The caller checks the range.
RECURSIVE WriteSeq(_, _, _)
WriteSeq(mem, base, seq) ==
    IF seq = << >> THEN mem
    ELSE WriteSeq(Wr(mem, base, Head(seq)), base + 1, Tail(seq))

\* A GETLIN that goes on to the push and the jump of the CALL
hook_getlin_calls(m, line) ==
    LET room == MemSize - KBDBFR
        read == [m EXCEPT !.memory = WriteSeq(@, KBDBFR, Append(line, 13)),
                          !.column = 1]
    IN  IF Len(line) + 1 > room
        THEN Raise([m EXCEPT !.memory = WriteSeq(@, KBDBFR, SubSeq(line, 1, room))])
        ELSE [Push2(read, ReturnAddress(m) \div 256, ReturnAddress(m) % 256)
                 EXCEPT !.regs.PC = 32, !.periods = @ + 17]

\* CALL GETLIN hardware hook: a line of console input goes to KBDBFR, then a
\* CR; PC = PC + 3 is not masked, nothing is pushed, periods is not touched.
\* The write that leaves the list raises after the ones before it are done.
hook_getlin(m, line) ==
    LET room == MemSize - KBDBFR IN
    IF Len(line) + 1 > room
    THEN Raise([m EXCEPT !.memory = WriteSeq(@, KBDBFR, SubSeq(line, 1, room))])
    ELSE [m EXCEPT !.memory = WriteSeq(@, KBDBFR, Append(line, 13)),
                   !.column = 1,
                   !.regs.PC = m.regs.PC + 3]

\* The message pointed to by DE: while memory[ptr] > 0
RECURSIVE MsgAt(_, _)
MsgAt(mem, ptr) ==
    IF OutOfRange(ptr) \/ Rd(mem, ptr) <= 0 THEN << >>
    ELSE << Rd(mem, ptr) >> \o MsgAt(mem, ptr + 1)

\* The scan for the message's end runs off the list
MsgRaises(mem, ptr) == OutOfRange(ptr + Len(MsgAt(mem, ptr)))

\* str(n) for n >= 0, as code points
RECURSIVE Str(_)
Str(n) == IF n < 10 THEN << 48 + n >> ELSE Append(Str(n \div 10), 48 + (n % 10))

\* The loop of '$READ ' over the characters of a line: a CR is put before a
\* line feed unless the cell before already holds one
RECURSIVE ReadLoop(_, _, _)
ReadLoop(mem, ptr, line) ==
    IF line = << >> THEN [memory |-> mem, ptr |-> ptr]
    ELSE LET addcr == Head(line) = 10 /\ Rd(mem, ptr - 1) # 13
             mem1 == IF addcr THEN Wr(mem, ptr, 13) ELSE mem
             ptr1 == IF addcr THEN ptr + 1 ELSE ptr
         IN  ReadLoop(Wr(mem1, ptr1, Head(line)), ptr1 + 1, Tail(line))

\* A FLOUT whose '$READ ' leaves the cursor on the line it delivered
hook_flout_rereads(m) ==
    LET msg == MsgAt(m.memory, Pair(m, "D", "E"))
        found == m.fname \in DOMAIN m.disk
    IN  IF msg = MsgSize THEN [m EXCEPT !.fload = TRUE]
        ELSE IF m.fload = TRUE THEN [m EXCEPT !.fname = msg, !.fload = FALSE]
        ELSE IF SubSeq(msg, 1, Len(msg) - 1) = MsgLine
        THEN LET size == IF found THEN Len(m.disk[m.fname]) + 1 ELSE 0 IN
             [m EXCEPT !.fsize = size,
                       !.fline = IF found THEN 0 ELSE @,
                       !.memory = WriteSeq(@, 64768, Append(Str(size), 0))]
        ELSE IF msg = MsgRead
        THEN IF found /\ m.fline < Len(m.disk[m.fname])
             THEN LET done == ReadLoop(m.memory, 64771, m.disk[m.fname][m.fline + 1]) IN
                  [m EXCEPT !.memory = Wr(Wr(done.memory, 64574, done.ptr % 256),
                                          64575, done.ptr \div 256)]
             ELSE m
        ELSE m

\* A FLOUT that looks for ' LINE' and '$READ ' before it looks at fload
hook_flout_requests_first(m) ==
    LET msg == MsgAt(m.memory, Pair(m, "D", "E"))
        found == m.fname \in DOMAIN m.disk
    IN  IF msg = MsgSize THEN [m EXCEPT !.fload = TRUE]
        ELSE IF SubSeq(msg, 1, Len(msg) - 1) = MsgLine
        THEN LET size == IF found THEN Len(m.disk[m.fname]) + 1 ELSE 0 IN
             [m EXCEPT !.fsize = size,
                       !.fline = IF found THEN 0 ELSE @,
                       !.memory = WriteSeq(@, 64768, Append(Str(size), 0))]
        ELSE IF msg = MsgRead
        THEN IF found /\ m.fline < Len(m.disk[m.fname])
             THEN LET done == ReadLoop(m.memory, 64771, m.disk[m.fname][m.fline + 1]) IN
                  [m EXCEPT !.fline = @ + 1,
                            !.memory = Wr(Wr(done.memory, 64574, done.ptr % 256),
                                          64575, done.ptr \div 256)]
             ELSE m
        ELSE IF m.fload = TRUE THEN [m EXCEPT !.fname = msg, !.fload = FALSE]
        ELSE m

\* CALL FLOUT hardware hook, up to the normal call that follows it.  open()
\* fails for a name the host has no file of, and the bare except takes it.
\* The model's lines are far shorter than the 764 cells above 0FD03H.
hook_flout(m) ==
    LET msg == MsgAt(m.memory, Pair(m, "D", "E"))
        found == m.fname \in DOMAIN m.disk
    IN  IF msg = MsgSize THEN [m EXCEPT !.fload = TRUE]
        ELSE IF m.fload = TRUE THEN [m EXCEPT !.fname = msg, !.fload = FALSE]
        ELSE IF SubSeq(msg, 1, Len(msg) - 1) = MsgLine
        THEN LET size == IF found THEN Len(m.disk[m.fname]) + 1 ELSE 0 IN
             [m EXCEPT !.fsize = size,
                       !.fline = IF found THEN 0 ELSE @,
                       !.memory = WriteSeq(@, 64768, Append(Str(size), 0))]
        ELSE IF msg = MsgRead
        THEN IF found /\ m.fline < Len(m.disk[m.fname])
             THEN LET done == ReadLoop(m.memory, 64771, m.disk[m.fname][m.fline + 1]) IN
                  [m EXCEPT !.fline = @ + 1,
                            !.memory = Wr(Wr(done.memory, 64574, done.ptr % 256),
                                          64575, done.ptr \div 256)]
             ELSE m
        ELSE m

\* A CALL whose '$READ ' found nothing to deliver returns as GETLIN does
instruction_CD_ReadReturns(m, line) ==
    LET target == Operand16(m) IN
    IF TraceRaises(m, 2) \/ Operand16Raises(m) THEN Raise(m)
    ELSE IF target = 32 THEN hook_getlin(m, line)
    ELSE IF target = 35 /\ MsgRaises(m.memory, Pair(m, "D", "E")) THEN Raise(m)
    ELSE IF target = 35 /\ MsgAt(m.memory, Pair(m, "D", "E")) = MsgRead
                        /\ hook_flout(m) = m
    THEN [m EXCEPT !.regs.PC = @ + 3]
    ELSE LET h == IF target = 35 THEN hook_flout(m) ELSE m IN
         [Push2(h, ReturnAddress(m) \div 256, ReturnAddress(m) % 256)
             EXCEPT !.regs.PC = target, !.periods = @ + 17]

\* CALL addr
instruction_CD(m, line) ==
    LET target == Operand16(m) IN
    IF TraceRaises(m, 2) \/ Operand16Raises(m) THEN Raise(m)
    ELSE IF target = 32 THEN hook_getlin(m, line)
    ELSE IF target = 35 /\ MsgRaises(m.memory, Pair(m, "D", "E")) THEN Raise(m)
    ELSE LET h == IF target = 35 THEN hook_flout(m) ELSE m IN
         [Push2(h, ReturnAddress(m) \div 256, ReturnAddress(m) % 256)
             EXCEPT !.regs.PC = target, !.periods = @ + 17]

\* text.find(v, from): the first index (from 0) at or after from, or -1
Find(text, v, from) ==
    LET hits == { i \in from..(Len(text) - 1) : text[i + 1] = v } IN
    IF hits = {} THEN 0 - 1
    ELSE CHOOSE i \in hits : \A j \in hits : i <= j

\* text[a:b] for a >= 0; a negative b counts from the end
Slice(text, a, b) ==
    SubSeq(text, a + 1, IF b < 0 THEN Len(text) + b ELSE b)

\* The characters str.lstrip() removes, among the code points below 256
Whitespace == { 9, 10, 11, 12, 13, 28, 29, 30, 31, 32, 133, 160 }

RECURSIVE LStrip(_)
LStrip(text) ==
    IF text # << >> /\ Head(text) \in Whitespace THEN LStrip(Tail(text)) ELSE text

\* Hardware hook simulates save to flash drive.  open(file_name, "w") fails
\* for the empty name; the except takes it.  Then PC takes the jump's target
\* and the two cells after the new PC are patched.
hook_save(m) ==
    LET text == [i \in 1..255 |-> Rd(m.memory, 65024 + i - 1)]
        pos1 == Find(text, 156, 0) + 1
        pos2 == Find(text, 0, pos1)
        file_name == LStrip(Slice(text, pos1, pos2))
        pc == Operand16(m)
    IN  [m EXCEPT !.disk = IF file_name = << >> THEN @
                           ELSE [n \in (DOMAIN @) \cup {file_name} |->
                                    IF n = file_name THEN << SaveText >> ELSE @[n]],
                  !.regs.PC = pc,
                  !.memory = Wr(Wr(@, pc + 1, 175), pc + 2, 0)]

\* A JMP that goes to the target it read before the hook ran
instruction_C3_target_kept(m) ==
    LET target == Operand16(m)
        h == IF target = 35 THEN hook_save(m) ELSE m
    IN  IF TraceRaises(m, 2) \/ Operand16Raises(m) THEN Raise(m)
        ELSE [h EXCEPT !.regs.PC = target, !.periods = @ + 10]

\* JMP addr: after the hook, the target is read again at the PC the hook left
instruction_C3(m) ==
    LET target == Operand16(m)
        h == IF target = 35 THEN hook_save(m) ELSE m
    IN  IF TraceRaises(m, 2) \/ Operand16Raises(m) THEN Raise(m)
        ELSE [h EXCEPT !.regs.PC = Operand16(h), !.periods = @ + 10]

-----------------------------------------------------------------------------
(* Decode: eval("instruction_" + op_code + "()").                          *)

UndefinedOps == { 8, 24, 32, 40, 48, 56, 203, 217, 221, 237, 253 }

\* The register pair named by bits 4..5 of an opcode: B, D, H
PairHi(k) == << "B", "D", "H" >>[k + 1]
PairLo(k) == << "C", "E", "L" >>[k + 1]

\* Opcodes 00..3F
Decode0(op, m) ==
    LET low == op % 8
        mid == op \div 8
    IN  CASE low = 0 -> IF op = 16 THEN instruction_10(m) ELSE NOP(m)
          [] low = 1 /\ mid % 2 = 0 ->
                IF mid = 6 THEN instruction_31(m)
                ELSE LXI(m, PairHi(mid \div 2), PairLo(mid \div 2))
          [] low = 1 /\ mid % 2 = 1 ->
                IF mid = 5 THEN instruction_29(m)
                ELSE IF mid = 7 THEN instruction_39(m)
                ELSE DAD(m, PairHi(mid \div 2), PairLo(mid \div 2))
          [] low = 2 ->
                (CASE mid = 0 -> STAX(m, "B", "C")
                  [] mid = 1 -> LDAX(m, "B", "C")
                  [] mid = 2 -> STAX(m, "D", "E")
                  [] mid = 3 -> LDAX(m, "D", "E")
                  [] mid = 4 -> instruction_22(m)
                  [] mid = 5 -> instruction_2A(m)
                  [] mid = 6 -> instruction_32(m)
                  [] mid = 7 -> instruction_3A(m))
          [] low = 3 /\ mid % 2 = 0 ->
                IF mid = 6 THEN instruction_33(m)
                ELSE INX(m, PairHi(mid \div 2), PairLo(mid \div 2))
          [] low = 3 /\ mid % 2 = 1 ->
                IF mid = 7 THEN instruction_3B(m)
                ELSE DCX(m, PairHi(mid \div 2), PairLo(mid \div 2))
          [] low = 4 -> IF mid = 6 THEN instruction_34(m) ELSE INR(m, RegName(mid))
          [] low = 5 -> IF mid = 6 THEN instruction_35(m) ELSE DCR(m, RegName(mid))
          [] low = 6 -> IF mid = 6 THEN instruction_36(m) ELSE MVI(m, RegName(mid))
          [] low = 7 ->
                (CASE mid = 0 -> instruction_07(m)
                  [] mid = 1 -> instruction_0F(m)
                  [] mid = 2 -> instruction_17(m)
                  [] mid = 3 -> instruction_1F(m)
                  [] mid = 4 -> instruction_27(m)
                  [] mid = 5 -> instruction_2F(m)
                  [] mid = 6 -> instruction_37(m)
                  [] mid = 7 -> instruction_3F(m))

\* Opcodes 80..BF
Decode2(op, m) ==
    LET s == RegName(op % 8)
        mid == (op \div 8) % 8
    IN  CASE mid = 0 -> ADD(m, s)
          [] mid = 1 -> ADC(m, s)
          [] mid = 2 -> SUB(m, s)
          [] mid = 3 -> SBB(m, s)
          [] mid = 4 -> ANA(m, s)
          [] mid = 5 -> XRA(m, s)
          [] mid = 6 -> ORA(m, s)
          [] mid = 7 -> CMP(m, s)

\* Opcodes C0..FF; line is what input() returns to the GETLIN hook
Decode3(op, m, line) ==
    LET low == op % 8
        mid == (op \div 8) % 8
    IN  CASE low = 0 -> Rcc(m, mid)
          [] low = 1 ->
                (CASE mid = 0 -> POP(m, "B", "C")
                  [] mid = 1 -> instruction_C9(m)
                  [] mid = 2 -> POP(m, "D", "E")
                  [] mid = 4 -> POP(m, "H", "L")
                  [] mid = 5 -> instruction_E9(m)
                  [] mid = 6 -> instruction_F1(m)
                  [] mid = 7 -> instruction_F9(m))
          [] low = 2 -> Jcc(m, mid)
          [] low = 3 ->
                (CASE mid = 0 -> instruction_C3(m)
                  [] mid = 2 -> instruction_D3(m)
                  [] mid = 3 -> instruction_DB(m)
                  [] mid = 4 -> instruction_E3(m)
                  [] mid = 5 -> instruction_EB(m)
                  [] mid = 6 -> NOP(m)
                  [] mid = 7 -> NOP(m))
          [] low = 4 -> Ccc(m, mid)
          [] low = 5 ->
                (CASE mid = 0 -> PUSH(m, "B", "C")
                  [] mid = 1 -> instruction_CD(m, line)
                  [] mid = 2 -> PUSH(m, "D", "E")
                  [] mid = 4 -> PUSH(m, "H", "L")
                  [] mid = 6 -> instruction_F5(m))
          [] low = 6 ->
                (CASE mid = 0 -> instruction_C6(m)
                  [] mid = 1 -> instruction_CE(m)
                  [] mid = 2 -> instruction_D6(m)
                  [] mid = 3 -> instruction_DE(m)
                  [] mid = 4 -> instruction_E6(m)
                  [] mid = 5 -> instruction_EE(m)
                  [] mid = 6 -> instruction_F6(m)
                  [] mid = 7 -> instruction_FE(m))
          [] low = 7 -> RST(m, mid)

\* The handler of opcode byte op.  A cell that holds no byte names no handler:
\* eval raises NameError.
instruction(op, m, line) ==
    IF op \notin 0..255 THEN Raise(m)
    ELSE IF op \in UndefinedOps THEN Undefined(m)
    ELSE IF op < 64 THEN Decode0(op, m)
    ELSE IF op = 118 THEN instruction_76(m)
    ELSE IF op < 128 THEN MOV(m, RegName((op \div 8) % 8), RegName(op % 8))
    ELSE IF op < 192 THEN Decode2(op, m)
    ELSE Decode3(op, m, line)

\* The opcode at PC waits for a line of console input
ReadsConsole(m) ==
    /\ ~OutOfRange(m.regs.PC) /\ Rd(m.memory, m.regs.PC) = 205
    /\ ~Operand16Raises(m) /\ Operand16(m) = 32

-----------------------------------------------------------------------------
(* The monitor.  A command is the list command_list() makes of a line: the *)
(* command letter, then the parameters, each a sequence of code points.    *)

\* The value of a hex digit, -1 for any other character
HexDigit(c) ==
    IF c \in 48..57 THEN c - 48
    ELSE IF c \in 65..70 THEN c - 55
    ELSE IF c \in 97..102 THEN c - 87
    ELSE 0 - 1

\* The digits of a token read as a hex number, acc the value so far
RECURSIVE HexValue(_, _)
HexValue(digits, acc) ==
    IF digits = << >> THEN acc
    ELSE HexValue(Tail(digits), 16 * acc + HexDigit(Head(digits)))

\* int(str, 16) for a token of an optional sign and hex digits: ok is FALSE
\* where int() raises ValueError.  (Tokens with a 0x prefix or underscores,
\* which int() also reads, are not among the model's inputs.)
ParseHex(tok) ==
    LET signed == tok # << >> /\ Head(tok) \in { 43, 45 }
        digits == IF signed THEN Tail(tok) ELSE tok
        valid == digits # << >> /\ \A i \in 1..Len(digits) : HexDigit(digits[i]) >= 0
        val == HexValue(digits, 0)
    IN  [ok |-> valid,
         val |-> IF ~valid THEN 0 ELSE IF signed /\ Head(tok) = 45 THEN 0 - val ELSE val]

\* The module-level error = -1
error == 0 - 1

\* Convert string to int 16 bit address
address(tok) ==
    LET p == ParseHex(tok) IN
    IF p.ok /\ ~(p.val < 0 \/ p.val > 65535) THEN p.val ELSE error

\* str.format('{:02X}', n) for n >= 0: hex digits, zero-padded to two
RECURSIVE HexDigits(_)
HexDigits(n) ==
    LET d == n % 16
        ch == IF d < 10 THEN 48 + d ELSE 55 + d
    IN  IF n < 16 THEN << ch >> ELSE Append(HexDigits(n \div 16), ch)

Format02X(n) == IF n < 16 THEN << 48 >> \o HexDigits(n) ELSE HexDigits(n)

\* The flag byte of a plain 8080: bit 1 always set, no K and no V
flag_byte_8080(f) ==
    f.CY + 2 + 4 * f.P + 16 * f.AC + 64 * f.Z + 128 * f.S

\* The flag byte the R command composes
flag_byte(f) ==
    f.CY + 2 * f.V + 4 * f.P + 16 * f.AC + 32 * f.K + 64 * f.Z + 128 * f.S

\* Lines of console input the GETLIN hook may be given
Lines == { << >>, << 65 >>, << 8364 >> }

\* What input() may return to the opcode at PC: a line when the GETLIN hook
\* asks for one, nothing otherwise
ConsoleInput(m) == IF ReadsConsole(m) THEN Lines ELSE { << >> }

\* The record hist keeps of one executed opcode: the machine before and after
Executed(op, m, n) == [op |-> op, pre |-> m, post |-> n]

\* S (Addr): execute single step of program
execute_single(list) ==
    /\ ~running /\ ~crashed /\ exit_status = << >> /\ Len(hist) < limit
    /\ LET pc == IF Len(list) = 2 THEN address(list[2]) ELSE regs.PC
           m0 == [Machine EXCEPT !.regs.PC = pc, !.single_step = 1]
           op == Rd(memory, pc)
       IN  IF pc > 65535
           THEN /\ regs' = [regs EXCEPT !.PC = pc]
                /\ UNCHANGED << flags, memory, port, periods, invalid, column,
                                single_step, fload, fname, fsize, fline, disk,
                                crashed, hist >>
           ELSE \E line \in ConsoleInput(m0) :
                    LET m1 == instruction(op, m0, line)
                        m2 == IF m1.crashed THEN m1 ELSE [m1 EXCEPT !.single_step = 0]
                    IN  /\ Becomes(m2)
                        /\ hist' = Append(hist, Executed(op, m0, m2))
    /\ UNCHANGED << breakpoint, running, shown, limit, exit_status >>
    /\ cl' = list

\* E (Addr): execute_program up to its while loop
execute_program(list) ==
    /\ ~running /\ ~crashed /\ exit_status = << >>
    /\ periods' = 0
    /\ regs' = IF Len(list) = 2 THEN [regs EXCEPT !.PC = address(list[2])] ELSE regs
    /\ running' = TRUE
    /\ UNCHANGED << flags, memory, port, invalid, breakpoint, column, single_step,
                    fload, fname, fsize, fline, disk, crashed, shown, hist, limit, exit_status >>
    /\ cl' = list

\* A run loop that compares PC to the breakpoint only after the opcode at PC
\* has been executed
RunStepBreakAfterFetch ==
    /\ running /\ ~crashed /\ Len(hist) < limit
    /\ invalid = FALSE
    /\ LET op == Rd(memory, regs.PC) IN
       IF regs.PC > 65535
       THEN /\ running' = FALSE
            /\ UNCHANGED << regs, flags, memory, port, periods, invalid, column,
                            single_step, fload, fname, fsize, fline, disk,
                            crashed, hist >>
       ELSE \E line \in ConsoleInput(Machine) :
                LET m1 == instruction(op, Machine, line) IN
                /\ Becomes(m1)
                /\ hist' = Append(hist, Executed(op, Machine, m1))
                /\ running' = (m1.crashed \/ op # 118)
    /\ UNCHANGED << breakpoint, shown, limit, cl, exit_status >>

\* A run loop without the break after HLT
RunStepPastHLT ==
    /\ running /\ ~crashed /\ Len(hist) < limit
    /\ regs.PC # breakpoint /\ invalid = FALSE
    /\ LET op == Rd(memory, regs.PC) IN
       IF regs.PC > 65535
       THEN /\ running' = FALSE
            /\ UNCHANGED << regs, flags, memory, port, periods, invalid, column,
                            single_step, fload, fname, fsize, fline, disk,
                            crashed, hist >>
       ELSE \E line \in ConsoleInput(Machine) :
                LET m1 == instruction(op, Machine, line) IN
                /\ Becomes(m1)
                /\ hist' = Append(hist, Executed(op, Machine, m1))
                /\ running' = TRUE
    /\ UNCHANGED << breakpoint, shown, limit, cl, exit_status >>

\* One pass of the while loop of execute_program.  A break (PC out of range,
\* HLT) goes on to the statements after the loop, which change nothing here:
\* PC is not the breakpoint's business any more and invalid is False.
RunStep ==
    /\ running /\ ~crashed /\ Len(hist) < limit
    /\ regs.PC # breakpoint /\ invalid = FALSE
    /\ LET op == Rd(memory, regs.PC) IN
       IF regs.PC > 65535
       THEN /\ running' = FALSE
            /\ UNCHANGED << regs, flags, memory, port, periods, invalid, column,
                            single_step, fload, fname, fsize, fline, disk,
                            crashed, hist >>
       ELSE \E line \in ConsoleInput(Machine) :
                LET m1 == instruction(op, Machine, line) IN
                /\ Becomes(m1)
                /\ hist' = Append(hist, Executed(op, Machine, m1))
                /\ running' = (m1.crashed \/ op # 118)
    /\ UNCHANGED << breakpoint, shown, limit, cl, exit_status >>

\* The while condition of execute_program fails: the statements after the loop
RunExit ==
    /\ running /\ ~crashed
    /\ regs.PC = breakpoint \/ invalid # FALSE
    /\ invalid' = FALSE
    /\ running' = FALSE
    /\ UNCHANGED << regs, flags, memory, port, periods, breakpoint, column,
                    single_step, fload, fname, fsize, fline, disk, crashed,
                    shown, hist, limit, cl, exit_status >>

\* B (Addr): set the breakpoint address; with no address it is only printed.
\* address() hands back error for a token it cannot take, and that is stored.
breakpoint_set(list) ==
    /\ ~running /\ ~crashed /\ exit_status = << >>
    /\ breakpoint' = IF Len(list) = 2 THEN address(list[2]) ELSE breakpoint
    /\ UNCHANGED << regs, flags, memory, port, periods, invalid, column,
                    single_step, fload, fname, fsize, fline, disk, crashed,
                    running, shown, hist, limit, exit_status >>
    /\ cl' = list

\* int(str) for a token of an optional sign and decimal digits: ok is FALSE
\* where int() raises ValueError
ParseDec(tok) ==
    LET signed == tok # << >> /\ Head(tok) \in { 43, 45 }
        digits == IF signed THEN Tail(tok) ELSE tok
        valid == digits # << >> /\ \A i \in 1..Len(digits) : digits[i] \in 48..57
    IN  [ok |-> valid,
         val |-> IF ~valid THEN 0
                 ELSE LET RECURSIVE Value(_, _)
                          Value(ds, acc) ==
                              IF ds = << >> THEN acc
                              ELSE Value(Tail(ds), 10 * acc + (Head(ds) - 48))
                          v == Value(digits, 0)
                      IN  IF signed /\ Head(tok) = 45 THEN 0 - v ELSE v]

\* F flag bit: set one of the flags.  flag is the name token, a key of flags
\* or a new one; a missing or unreadable bit raises inside the try, which
\* prints 'Unrecognized command'; a bit other than 0 and 1 is passed over.
flag_set(list) ==
    /\ ~running /\ ~crashed /\ exit_status = << >>
    /\ IF Len(list) < 3 \/ ~ParseDec(list[3]).ok
       THEN UNCHANGED flags
       ELSE LET flag == list[2]
                bit == ParseDec(list[3]).val
            IN  IF bit = 0 \/ bit = 1
                THEN flags' = [k \in (DOMAIN flags) \cup {flag} |->
                                  IF k = flag THEN bit ELSE flags[k]]
                ELSE UNCHANGED flags
    /\ UNCHANGED << regs, memory, port, periods, invalid, breakpoint, column,
                    single_step, fload, fname, fsize, fline, disk, crashed,
                    running, shown, hist, limit, exit_status >>
    /\ cl' = list

\* The for loop of memory_set: each byte token is converted and stored in
\* turn.  A token int() cannot read, or a store past the end of the list,
\* raises into the except clause, and a byte outside 0..255 returns; either
\* way the bytes stored before it stay.
RECURSIVE SetBytes(_, _, _)
SetBytes(mem, addr, toks) ==
    IF toks = << >> THEN mem
    ELSE LET p == ParseHex(Head(toks)) IN
         IF ~p.ok THEN mem
         ELSE IF p.val < 0 \/ p.val > 255 THEN mem
         ELSE IF OutOfRange(addr) THEN mem
         ELSE SetBytes(Wr(mem, addr, p.val), addr + 1, Tail(toks))

\* M Addr byte (byte): set memory value(s)
memory_set(list) ==
    /\ ~running /\ ~crashed /\ exit_status = << >>
    /\ IF Len(list) < 2 \/ ~ParseHex(list[2]).ok
       THEN UNCHANGED memory
       ELSE LET addr == ParseHex(list[2]).val IN
            IF addr < 0 \/ addr > 65535
            THEN UNCHANGED memory
            ELSE memory' = SetBytes(memory, addr, SubSeq(list, 3, Len(list)))
    /\ UNCHANGED << regs, flags, port, periods, invalid, breakpoint, column,
                    single_step, fload, fname, fsize, fline, disk, crashed,
                    running, shown, hist, limit, exit_status >>
    /\ cl' = list

\* P Port (byte): the function has a docstring and a global statement and
\* nothing else
port_set(list) ==
    /\ ~running /\ ~crashed /\ exit_status = << >>
    /\ UNCHANGED << regs, flags, memory, port, periods, invalid, breakpoint,
                    column, single_step, fload, fname, fsize, fline, disk,
                    crashed, running, shown, hist, limit, exit_status >>
    /\ cl' = list

\* str[a:b] for 0 <= a <= b: the slice stops at the end of the string
Substr(text, a, b) ==
    LET last == IF b > Len(text) THEN Len(text) ELSE b IN
    IF a + 1 > last THEN << >> ELSE SubSeq(text, a + 1, last)

\* open_file: the lines of the file, or SystemExit raised by sys.exit() when
\* the host cannot open it
open_file(d, file_name) ==
    IF file_name \in DOMAIN d
    THEN [raised |-> FALSE, lines |-> d[file_name]]
    ELSE [raised |-> TRUE, lines |-> << >>]

\* A loader that adds each payload byte to the cell instead of storing it
RECURSIVE LoadRecordAdds(_, _, _, _, _)
LoadRecordAdds(mem, str, addr, i, n) ==
    IF i >= n THEN [memory |-> mem, raised |-> FALSE]
    ELSE LET byte == ParseHex(Substr(str, 9 + 2 * i, 11 + 2 * i)) IN
         IF ~byte.ok \/ OutOfRange(addr) THEN [memory |-> mem, raised |-> TRUE]
         ELSE LoadRecordAdds(Wr(mem, addr, (Rd(mem, addr) + byte.val) % 256),
                             str, addr + 1, i + 1, n)

\* The for loop of load_file over the payload of one record: byte i of n is
\* read from the line and stored at address.  raised: int() could not read
\* the two characters, or the store left the list.
RECURSIVE LoadRecord(_, _, _, _, _)
LoadRecord(mem, str, addr, i, n) ==
    IF i >= n THEN [memory |-> mem, raised |-> FALSE]
    ELSE LET byte == ParseHex(Substr(str, 9 + 2 * i, 11 + 2 * i)) IN
         IF ~byte.ok \/ OutOfRange(addr) THEN [memory |-> mem, raised |-> TRUE]
         ELSE LoadRecord(Wr(mem, addr, byte.val), str, addr + 1, i + 1, n)

\* The while loop of load_file from line k on; readline() gives '' at the end
\* of the file.  A break (a record of no bytes) and the except clause both
\* leave memory as the records before have made it.  (The lines of the
\* model's files have no blank inside the fields int() reads.)
RECURSIVE LoadLines(_, _, _)
LoadLines(mem, lines, k) ==
    LET str == IF k <= Len(lines) THEN lines[k] ELSE << >>
        bytes == ParseHex(Substr(str, 1, 3))
        addr == ParseHex(Substr(str, 3, 7))
    IN  IF ~bytes.ok THEN mem
        ELSE IF bytes.val = 0 THEN mem
        ELSE IF ~addr.ok THEN mem
        ELSE LET done == LoadRecord(mem, str, addr.val, 0, bytes.val) IN
             IF done.raised THEN done.memory
             ELSE LoadLines(done.memory, lines, k + 1)

\* A loader that takes the end of the file for the end of the load
RECURSIVE LoadFailsOnBadLinesOnly(_, _, _)
LoadFailsOnBadLinesOnly(mem, lines, k) ==
    LET str == IF k <= Len(lines) THEN lines[k] ELSE << >>
        bytes == ParseHex(Substr(str, 1, 3))
        addr == ParseHex(Substr(str, 3, 7))
    IN  IF k > Len(lines) THEN FALSE
        ELSE IF ~bytes.ok THEN TRUE
        ELSE IF bytes.val = 0 THEN FALSE
        ELSE IF ~addr.ok THEN TRUE
        ELSE LET done == LoadRecord(mem, str, addr.val, 0, bytes.val) IN
             IF done.raised THEN TRUE
             ELSE LoadFailsOnBadLinesOnly(done.memory, lines, k + 1)

\* The while loop of load_file from line k on ends in the except clause: an
\* int() could not read its characters, those of the '' readline() gives at
\* the end of the file included, or a store left the list.  A break does not.
RECURSIVE LoadFails(_, _, _)
LoadFails(mem, lines, k) ==
    LET str == IF k <= Len(lines) THEN lines[k] ELSE << >>
        bytes == ParseHex(Substr(str, 1, 3))
        addr == ParseHex(Substr(str, 3, 7))
    IN  IF ~bytes.ok THEN TRUE
        ELSE IF bytes.val = 0 THEN FALSE
        ELSE IF ~addr.ok THEN TRUE
        ELSE LET done == LoadRecord(mem, str, addr.val, 0, bytes.val) IN
             IF done.raised THEN TRUE
             ELSE LoadFails(done.memory, lines, k + 1)

\* load_file prints 'Invalid or missing file'
LoadFailed(list) ==
    /\ Len(list) >= 2
    /\ LET hexfile == open_file(disk, list[2]) IN
       hexfile.raised \/ LoadFails(memory, hexfile.lines, 1)

\* What load_file does to memory and to the process.  list[1] is read before
\* the try: without a file name IndexError escapes.  The bare except catches
\* the SystemExit of open_file as it catches every error of the loop.
Loaded(list) ==
    IF Len(list) < 2 THEN [memory |-> memory, crashed |-> TRUE]
    ELSE LET hexfile == open_file(disk, list[2]) IN
         [memory |-> IF hexfile.raised THEN memory
                     ELSE LoadLines(memory, hexfile.lines, 1),
          crashed |-> FALSE]

\* L name.hex: load the hex file into memory
load_file(list) ==
    /\ ~running /\ ~crashed /\ exit_status = << >>
    /\ memory' = Loaded(list).memory
    /\ crashed' = Loaded(list).crashed
    /\ UNCHANGED << regs, flags, port, periods, invalid, breakpoint, column,
                    single_step, fload, fname, fsize, fline, disk, running,
                    shown, hist, limit, exit_status >>
    /\ cl' = list

\* The start of main with a file name in sys.argv: fname is the name,
\* cl = ['L', fname] and load_file(cl), then on to the prompt
main_load(file_name) ==
    /\ ~running /\ ~crashed /\ exit_status = << >>
    /\ cl = << >>
    /\ fname' = file_name
    /\ memory' = Loaded(<< "L", file_name >>).memory
    /\ UNCHANGED << regs, flags, port, periods, invalid, breakpoint, column,
                    single_step, fload, fsize, fline, disk, crashed,
                    running, shown, hist, limit, exit_status >>
    /\ cl' = << "L", file_name >>

\* Q(uit): the loop breaks and the script ends
quit ==
    /\ ~running /\ ~crashed /\ exit_status = << >>
    /\ exit_status' = << 0 >>
    /\ UNCHANGED << regs, flags, memory, port, periods, invalid, breakpoint,
                    column, single_step, fload, fname, fsize, fline, disk,
                    crashed, running, shown, hist, limit >>
    /\ cl' = << "Q" >>

\* R: display registers and flags (a list of one), or set a register.  reg is
\* the name token, a key of regs or a new one; a missing or unreadable value
\* raises inside the try, which prints 'Unrecognized command'.
display_registers(list) ==
    /\ ~running /\ ~crashed /\ exit_status = << >>
    /\ IF Len(list) = 1
       THEN /\ shown' = Format02X(regs.A) \o Format02X(flag_byte(flags))
            /\ UNCHANGED regs
       ELSE /\ shown' = shown
            /\ IF Len(list) < 3 \/ ~ParseHex(list[3]).ok
               THEN UNCHANGED regs
               ELSE LET reg == list[2]
                        val == ParseHex(list[3]).val
                        top == IF reg = "SP" \/ reg = "PC" THEN 65535 ELSE 255
                    IN  IF val < 0 \/ val > top
                        THEN UNCHANGED regs
                        ELSE regs' = [k \in (DOMAIN regs) \cup {reg} |->
                                         IF k = reg THEN val ELSE regs[k]]
    /\ UNCHANGED << flags, memory, port, periods, invalid, breakpoint, column,
                    single_step, fload, fname, fsize, fline, disk, crashed,
                    running, hist, limit, exit_status >>
    /\ cl' = list

-----------------------------------------------------------------------------
(* Initial states.  The process starts with every register, flag, memory   *)
(* and port cell 0; the M, R and F commands of the monitor load a program  *)
(* and set registers and flags before the first S or E.  A scenario is the *)
(* machine such a session leaves.                                          *)

regs0 ==
    [A |-> 0, B |-> 0, C |-> 0, D |-> 0, E |-> 0, H |-> 0, L |-> 0,
     PC |-> 0, SP |-> 0, RIM |-> 0, SIM |-> 0]

flags0 == [S |-> 0, Z |-> 0, K |-> 0, AC |-> 0, P |-> 0, V |-> 0, CY |-> 0]

\* The memory list as created: [0] * 2**16
memory0 == [a \in {} |-> 0]

\* The host's files: none
disk0 == [n \in {} |-> << >>]

\* Everything but regs, flags, memory and limit, as the module sets it
Fresh ==
    /\ port = [d \in {} |-> 0]
    /\ periods = 0
    /\ invalid = FALSE
    /\ breakpoint = 0 - 1
    /\ column = 1
    /\ single_step = 0
    /\ fload = FALSE
    /\ fname = << >>
    /\ fsize = 0
    /\ fline = 0
    /\ disk = disk0
    /\ crashed = FALSE
    /\ running = FALSE
    /\ shown = << >>
    /\ hist = << >>
    /\ cl = << >>
    /\ exit_status = << >>

\* Memory with the bytes of code at pc, pc+1, ...; a byte that would lie
\* beyond 0FFFFH is not loaded
RECURSIVE Load(_, _, _)
Load(mem, pc, code) ==
    IF code = << >> \/ OutOfRange(pc) THEN mem
    ELSE Load(Wr(mem, pc, Head(code)), pc + 1, Tail(code))

\* Engine scenarios: every opcode, at an ordinary address and at the top of
\* memory, with the stack at either end of memory
EnginePCs == { 256, 65533, 65534, 65535 }

EngineSPs == { 0, 1, 8192, 65534, 65535 }

EngineOperands == { << 0, 0 >>, << 32, 0 >>, << 35, 0 >>, << 255, 255 >>, << 2, 0 >> }

EngineBytes == { 0, 255 }

Init ==
    /\ Fresh
    /\ limit = MaxSteps
    /\ \E op \in 0..255, pc \in EnginePCs, sp \in EngineSPs,
          d \in EngineOperands, r \in EngineBytes, f \in {0, 1} :
          /\ regs = [regs0 EXCEPT !.A = r, !.B = r, !.C = r, !.D = r, !.E = r,
                                  !.H = r, !.L = r, !.PC = pc, !.SP = sp]
          /\ flags = [k \in DOMAIN flags0 |-> f]
          /\ memory = Load(memory0, pc, << op >> \o d)

Next ==
    \/ execute_single(<< "S" >>)
    \/ execute_program(<< "E" >>)
    \/ RunStep
    \/ RunExit

Spec == Init /\ [][Next]_vars

-----------------------------------------------------------------------------
(* ALU scenarios: one accumulator opcode at 0100H with its operand byte b   *)
(* in every place it can come from: the registers B..L, the cell HL points  *)
(* to, and the byte after the opcode.  The M, R and F commands set this up. *)

\* ADD, ADC, SUB, SBB, ANA, XRA, ORA, CMP with every source; the immediate
\* forms; INR and DCR of every register and of M
AluOps ==
    (128..191) \cup { 198, 206, 214, 222, 230, 238, 246, 254 }
        \cup { 4, 12, 20, 28, 36, 44, 52, 60 } \cup { 5, 13, 21, 29, 37, 45, 53, 61 }

AluBytes == { 0, 1, 2, 7, 8, 15, 16, 17, 127, 128, 129, 170, 240, 241, 254, 255 }

InitALU ==
    /\ Fresh
    /\ limit = MaxAluSteps
    /\ \E op \in AluOps, a \in AluBytes, b \in AluBytes, c \in {0, 1}, f \in {0, 1} :
          /\ regs = [regs0 EXCEPT !.A = a, !.B = b, !.C = b, !.D = b, !.E = b,
                                  !.H = b, !.L = b, !.PC = 256, !.SP = 8192]
          /\ flags = [flags0 EXCEPT !.CY = c, !.Z = f, !.S = f, !.P = f, !.AC = f]
          /\ memory = Wr(Load(memory0, 256, << op, b >>), 257 * b, b)

NextALU ==
    \/ execute_single(<< "S" >>)
    \/ execute_program(<< "E" >>)
    \/ RunStep

SpecALU == InitALU /\ [][NextALU]_vars

-----------------------------------------------------------------------------
(* Stack scenarios: a PUSH at 0100H and a POP after it, with the stack at   *)
(* either end of memory, in the middle, and on top of the program; every    *)
(* combination of the seven flags; R shows the PSW at any point.            *)

StackSPs == { 0, 1, 258, 8192, 65535 }

StackBytes == { 8, 215, 255 }

InitStack ==
    /\ Fresh
    /\ limit = MaxStackSteps
    /\ \E push \in { 197, 213, 229, 245 }, pop \in { 193, 209, 225, 241 },
          sp \in StackSPs, lo \in StackBytes, f \in [DOMAIN flags0 -> {0, 1}] :
          /\ regs = [regs0 EXCEPT !.A = 255 - lo, !.B = 18, !.C = lo,
                                  !.D = 86, !.E = (lo + 1) % 256,
                                  !.H = 154, !.L = (lo + 2) % 256,
                                  !.PC = 256, !.SP = sp]
          /\ flags = f
          /\ memory = Load(memory0, 256, << push, pop >>)

NextStack ==
    \/ execute_single(<< "S" >>)
    \/ execute_program(<< "E" >>)
    \/ RunStep
    \/ display_registers(<< "R" >>)

SpecStack == InitStack /\ [][NextStack]_vars

-----------------------------------------------------------------------------
(* Properties.  hist[i] is the i-th executed opcode with the machine before *)
(* (pre) and after (post) it.                                               *)

Word == 0..65535

Byte == 0..255

\* The executed opcodes that ended without an error of the host
Done == { i \in 1..Len(hist) : ~hist[i].post.crashed }

\* C1: after any single opcode executed from a state with SP in 0..65535, SP
\* is again in 0..65535; a taken conditional return at SP = 0FFFEH or 0FFFFH
\* wraps SP + 2 modulo 65536 as RET and POP do.
C1_SPStaysInRange ==
    \A i \in Done :
        hist[i].pre.regs.SP \in Word => hist[i].post.regs.SP \in Word

\* C2: after any opcode executed from a state with PC in 0..65535, PC is in
\* 0..65535, a CALL 0020H (GETLIN hook) at the top of memory included.
C2_PCStaysInRange ==
    \A i \in Done :
        hist[i].pre.regs.PC \in Word => hist[i].post.regs.PC \in Word

\* C3: from a state whose 8-bit registers, memory cells and port cells are in
\* 0..255 and whose flags are 0 or 1, after any sequence of executed opcodes
\* every register A, B, C, D, E, H, L, every memory cell and every port cell
\* is in 0..255 and every flag is 0 or 1.
C3_BytesStayInRange ==
    ~crashed =>
        /\ \A r \in { "A", "B", "C", "D", "E", "H", "L" } : regs[r] \in Byte
        /\ \A a \in DOMAIN memory : memory[a] \in Byte
        /\ \A d \in DOMAIN port : port[d] \in Byte
        /\ \A k \in DOMAIN flags : flags[k] \in {0, 1}

\* C4: for every PC and SP in 0..65535, executing any opcode completes
\* without an unhandled error of the host: operand fetches at PC+1 and PC+2,
\* the accesses at addr+1 of LHLD, SHLD and XTHL, and stack pops wrap modulo
\* 65536 instead of indexing past the memory list.
C4_NoHostError ==
    \A i \in 1..Len(hist) :
        (hist[i].pre.regs.PC \in Word /\ hist[i].pre.regs.SP \in Word)
            => ~hist[i].post.crashed

\* The opcodes of the accumulator groups
AddOps == (128..143) \cup { 198, 206 }

SubOps == (144..159) \cup { 214, 222 }

LogicOps == (160..183) \cup { 230, 238, 246 }

CmpOps == (184..191) \cup { 254 }

IncDecOps ==
    { 4, 12, 20, 28, 36, 44, 52, 60 } \cup { 5, 13, 21, 29, 37, 45, 53, 61 }

ImmediateOps == { 198, 206, 214, 222, 230, 238, 246, 254 }

\* The opcodes that take the carry in: ADC, ACI, SBB, SBI
WithCarryOps == (136..143) \cup (152..159) \cup { 206, 222 }

\* The operand byte b of an executed accumulator opcode: the immediate byte,
\* or the register or memory cell its low three bits name
OperandByte(e) ==
    IF e.op \in ImmediateOps THEN Rd(e.pre.memory, e.pre.regs.PC + 1)
    ELSE IF e.op % 8 = 6 THEN Rd(e.pre.memory, 256 * e.pre.regs.H + e.pre.regs.L)
    ELSE e.pre.regs[RegName(e.op % 8)]

CarryIn(e) == IF e.op \in WithCarryOps THEN e.pre.flags.CY ELSE 0

\* r has an even number of 1 bits
EvenParity(r) == Cardinality({ k \in 0..7 : (r \div (2 ^ k)) % 2 = 1 }) % 2 = 0

\* Z, S and P of the flags f are those of the 8-bit result r
ZSPReflect(f, r) ==
    /\ f.Z = 1 <=> r = 0
    /\ f.S = 1 <=> r >= 128
    /\ f.P = 1 <=> EvenParity(r)
    /\ { f.Z, f.S, f.P } \subseteq {0, 1}

\* C5: for every addition a + b + c_in of ADD r, ADD M, ADC r, ADC M, ADI and
\* ACI, with a and b in 0..255: afterwards A = (a + b + c_in) mod 256, CY is
\* bit 8 of the unbounded sum, and AC is bit 4 of (a & 0FH) + (b & 0FH) + c_in,
\* b being the operand byte itself.
C5_AddFlags ==
    \A i \in Done :
        LET e == hist[i]
            a == e.pre.regs.A
            b == OperandByte(e)
            c == CarryIn(e)
        IN  (e.op \in AddOps /\ a \in Byte /\ b \in Byte) =>
                /\ e.post.regs.A = (a + b + c) % 256
                /\ e.post.flags.CY = ((a + b + c) \div 256) % 2
                /\ e.post.flags.AC = (((a % 16) + (b % 16) + c) \div 16) % 2

\* C6: for every subtraction a - b - c_in of SUB, SBB, SUI, SBI, CMP and CPI,
\* with a and b in 0..255: CY = 1 iff the unbounded result is negative, AC = 1
\* iff (a & 0FH) - (b & 0FH) - c_in is negative, S, Z and P reflect the result
\* mod 256, and A becomes the result mod 256, except that CMP and CPI leave A
\* as it was.
C6_SubFlags ==
    \A i \in Done :
        LET e == hist[i]
            a == e.pre.regs.A
            b == OperandByte(e)
            c == CarryIn(e)
            d == a - b - c
        IN  (e.op \in SubOps \cup CmpOps /\ a \in Byte /\ b \in Byte) =>
                /\ e.post.flags.CY = (IF d < 0 THEN 1 ELSE 0)
                /\ e.post.flags.AC = (IF (a % 16) - (b % 16) - c < 0 THEN 1 ELSE 0)
                /\ ZSPReflect(e.post.flags, d % 256)
                /\ e.post.regs.A = (IF e.op \in CmpOps THEN a ELSE d % 256)

\* SBB M with a borrow out of both the byte and the nibble: 10H - 10H - 1
C6_Witness ==
    \E i \in Done :
        /\ hist[i].op = 158
        /\ hist[i].pre.regs.A = 16 /\ OperandByte(hist[i]) = 16
        /\ hist[i].pre.flags.CY = 1
        /\ hist[i].post.regs.A = 255
        /\ hist[i].post.flags.CY = 1 /\ hist[i].post.flags.AC = 1

\* The 8-bit result of an executed ALU opcode: what INR and DCR leave in their
\* register or memory cell, the difference CMP and CPI discard, and else the
\* new accumulator
AluResult(e) ==
    IF e.op \in CmpOps THEN (e.pre.regs.A - OperandByte(e)) % 256
    ELSE IF e.op \in IncDecOps
    THEN IF (e.op \div 8) % 8 = 6
         THEN Rd(e.post.memory, 256 * e.pre.regs.H + e.pre.regs.L)
         ELSE e.post.regs[RegName((e.op \div 8) % 8)]
    ELSE e.post.regs.A

\* C7: for every 8-bit result r in 0..255 of an arithmetic (ADD, ADC, ADI,
\* ACI, SUB, SBB, SUI, SBI), logical (ANA, XRA, ORA, ANI, XRI, ORI), compare
\* (CMP, CPI), INR or DCR opcode, the flags afterwards have Z = 1 iff r = 0,
\* S = 1 iff r >= 128, and P = 1 iff r has an even number of 1 bits.  These
\* are the opcodes that call set_flags_ZSP; DAA (instruction_27) does not
\* call it and is not among them.
C7_ZSPOfResult ==
    \A i \in Done :
        LET e == hist[i] IN
        (e.op \in AddOps \cup SubOps \cup LogicOps \cup CmpOps \cup IncDecOps
            /\ AluResult(e) \in Byte)
            => ZSPReflect(e.post.flags, AluResult(e))

\* ORA A with A = 0, from flags that said otherwise: r = 0 gives Z = 1, P = 1
C7_Witness ==
    \E i \in Done :
        /\ hist[i].op = 183
        /\ hist[i].pre.flags.Z = 0 /\ hist[i].pre.flags.P = 0
        /\ hist[i].post.regs.A = 0
        /\ hist[i].post.flags.Z = 1 /\ hist[i].post.flags.P = 1
        /\ hist[i].post.flags.S = 0

\* hist[i + 1] is the opcode executed next after hist[i], on the machine
\* hist[i] left
Follows(i) ==
    /\ i + 1 \in Done /\ i \in Done
    /\ hist[i + 1].pre.memory = hist[i].post.memory
    /\ hist[i + 1].pre.regs = hist[i].post.regs
    /\ hist[i + 1].pre.flags = hist[i].post.flags

\* C8: for any A, any seven flags (each 0 or 1) and any SP, SP = 0 and 1
\* included, PUSH PSW followed by POP PSW restores A, all of S, Z, K, AC, P, V,
\* CY, and SP.
C8_PSWRoundTrip ==
    \A i \in 1..Len(hist) :
        (hist[i].op = 245 /\ i + 1 <= Len(hist) /\ hist[i + 1].op = 241) =>
            /\ Follows(i)
            /\ hist[i + 1].post.regs.A = hist[i].pre.regs.A
            /\ hist[i + 1].post.flags = hist[i].pre.flags
            /\ hist[i + 1].post.regs.SP = hist[i].pre.regs.SP

\* PUSH PSW; POP PSW with SP = 1, K and V set: the flag byte goes to 0FFFFH
C8_Witness ==
    /\ Len(hist) = 2
    /\ hist[1].op = 245 /\ hist[2].op = 241
    /\ hist[1].pre.regs.SP = 1
    /\ hist[1].pre.flags.K = 1 /\ hist[1].pre.flags.V = 1
    /\ hist[1].pre.flags.S = 0
    /\ hist[1].post.regs.SP = 65535
    /\ regs.SP = 1 /\ regs.A = hist[1].pre.regs.A

\* The register pair the PUSH or POP opcode op names
PairOf(op) == (op \div 16) % 4

\* C9: for any pairs rp and rp' of BC, DE, HL, any state and any SP, those
\* where SP - 1 or SP - 2 wraps below 0 included, PUSH rp followed by POP rp'
\* leaves rp' equal to the original rp and SP equal to its original value.
C9_PairRoundTrip ==
    \A i \in 1..Len(hist) :
        (hist[i].op \in { 197, 213, 229 } /\ i + 1 <= Len(hist)
            /\ hist[i + 1].op \in { 193, 209, 225 }) =>
            LET from == PairOf(hist[i].op)
                to == PairOf(hist[i + 1].op)
            IN  /\ Follows(i)
                /\ hist[i + 1].post.regs[PairHi(to)] = hist[i].pre.regs[PairHi(from)]
                /\ hist[i + 1].post.regs[PairLo(to)] = hist[i].pre.regs[PairLo(from)]
                /\ hist[i + 1].post.regs.SP = hist[i].pre.regs.SP

\* PUSH B; POP D with SP = 0: DE becomes the BC pushed, SP is 0 again
C9_Witness ==
    /\ Len(hist) = 2
    /\ hist[1].op = 197 /\ hist[2].op = 209
    /\ hist[1].pre.regs.SP = 0
    /\ hist[1].pre.regs.D # hist[1].pre.regs.B
    /\ hist[1].pre.regs.E # hist[1].pre.regs.C
    /\ hist[1].post.regs.SP = 65534
    /\ regs.D = hist[1].pre.regs.B /\ regs.E = hist[1].pre.regs.C
    /\ regs.SP = 0

\* The PSW flag byte: bit 7 S, 6 Z, 5 K, 4 AC, 3 nothing, 2 P, 1 V, 0 CY
PSWLayout(f) ==
    128 * f.S + 64 * f.Z + 32 * f.K + 16 * f.AC + 4 * f.P + 2 * f.V + f.CY

\* Bit k of the byte b
Bit(b, k) == (b \div (2 ^ k)) % 2

\* What an executed PUSH PSW left in memory
PushedPSW(e) ==
    LET sp == e.pre.regs.SP
        byte == Rd(e.post.memory, (sp - 2) % 65536)
    IN  /\ byte = PSWLayout(e.pre.flags)
        /\ Bit(byte, 3) = 0
        /\ Rd(e.post.memory, (sp - 1) % 65536) = e.pre.regs.A

\* What an executed POP PSW made of the byte at SP
PoppedPSW(e) ==
    LET byte == Rd(e.pre.memory, e.pre.regs.SP) IN
    /\ e.post.flags.S = Bit(byte, 7) /\ e.post.flags.Z = Bit(byte, 6)
    /\ e.post.flags.K = Bit(byte, 5) /\ e.post.flags.AC = Bit(byte, 4)
    /\ e.post.flags.P = Bit(byte, 2) /\ e.post.flags.V = Bit(byte, 1)
    /\ e.post.flags.CY = Bit(byte, 0)

\* An R command prints, after the two digits of A, the two hex digits of the
\* layout's byte
ShowsPSW ==
    shown' # shown =>
        /\ Len(shown') = 4
        /\ ParseHex(SubSeq(shown', 1, 2)) = [ok |-> TRUE, val |-> regs.A]
        /\ ParseHex(SubSeq(shown', 3, 4)) = [ok |-> TRUE, val |-> PSWLayout(flags)]

\* C10: the flag byte PUSH PSW writes at SP - 2 is 128 S + 64 Z + 32 K + 16 AC
\* + 4 P + 2 V + CY, its bit 3 always 0, with A written at SP - 1; POP PSW
\* decodes the same bit positions; and the PSW byte the R command of the
\* monitor composes has the same layout.
C10_PSWLayout ==
    /\ [](\A i \in Done : /\ hist[i].op = 245 => PushedPSW(hist[i])
                          /\ hist[i].op = 241 => PoppedPSW(hist[i]))
    /\ [][ShowsPSW]_vars

\* PUSH PSW; POP PSW with A = 28H and Z, K, P, V set: the byte pushed is 66H,
\* the flags come back from it, and R then shows 2866
C10_Witness ==
    /\ Len(hist) = 2
    /\ hist[1].op = 245 /\ hist[2].op = 241
    /\ Rd(hist[1].post.memory, (hist[1].pre.regs.SP - 2) % 65536) = 102
    /\ flags = [S |-> 0, Z |-> 1, K |-> 1, AC |-> 0, P |-> 1, V |-> 1, CY |-> 0]
    /\ regs.A = 40
    /\ shown = << 50, 56, 54, 54 >>

\* The opcodes of MOV, PUSH, POP, JMP and Jcc, CALL and Ccc, RET and Rcc, INX
\* and DCX
MovOps == (64..127) \ { 118 }

PushOps == { 197, 213, 229, 245 }

PopOps == { 193, 209, 225, 241 }

JumpOps == { 195 } \cup { 194 + 8 * c : c \in 0..7 }

CallOps == { 205 } \cup { 196 + 8 * c : c \in 0..7 }

ReturnOps == { 201 } \cup { 192 + 8 * c : c \in 0..7 }

InxOps == { 3, 19, 35, 51 }

DcxOps == { 11, 27, 43, 59 }

FrameOps ==
    MovOps \cup PushOps \cup PopOps \cup JumpOps \cup CallOps \cup ReturnOps
        \cup InxOps \cup DcxOps

\* The executed opcode e left S, Z, P, CY and AC as they were
KeepsSZPCYAC(e) ==
    \A k \in { "S", "Z", "P", "CY", "AC" } : e.post.flags[k] = e.pre.flags[k]

\* C11 as stated: no MOV, PUSH, POP, JMP/Jcc, CALL/Ccc, RET/Rcc, INX or DCX
\* opcode changes any of the flags S, Z, P, CY, AC, for every starting state.
C11_NoFlagChange ==
    \A i \in Done : hist[i].op \in FrameOps => KeepsSZPCYAC(hist[i])

\* C11 amended: the same for every one of these opcodes but POP PSW (F1),
\* which loads S, Z, P, CY and AC from the byte at SP.
C11_NoFlagChangeButPOPPSW ==
    \A i \in Done : hist[i].op \in FrameOps \ { 241 } => KeepsSZPCYAC(hist[i])

\* POP D with every flag set took 0000H from an empty stack into DE = FFFFH
\* and the flags are all still set
C11_Witness ==
    \E i \in Done :
        /\ hist[i].op = 209
        /\ hist[i].pre.regs.D = 255 /\ hist[i].post.regs.D = 0
        /\ \A k \in DOMAIN flags0 : hist[i].pre.flags[k] = 1 /\ hist[i].post.flags[k] = 1

-----------------------------------------------------------------------------
(* Register-pair scenarios: two of INX, DCX and DAD at 0100H, with HL and   *)
(* the other pairs at the values where a byte or the word carries.          *)

PairOps == { 3, 19, 35, 51 } \cup { 11, 27, 43, 59 } \cup { 9, 25, 41, 57 }

PairWords == { 0, 1, 255, 256, 32767, 32768, 65534, 65535 }

InitPair ==
    /\ Fresh
    /\ limit = MaxPairSteps
    /\ \E op1 \in PairOps, op2 \in PairOps, hl \in PairWords, rp \in PairWords,
          f \in {0, 1} :
          /\ regs = [regs0 EXCEPT !.A = 90,
                                  !.B = rp \div 256, !.C = rp % 256,
                                  !.D = rp \div 256, !.E = rp % 256,
                                  !.H = hl \div 256, !.L = hl % 256,
                                  !.PC = 256, !.SP = rp]
          /\ flags = [k \in DOMAIN flags0 |-> f]
          /\ memory = Load(memory0, 256, << op1, op2 >>)

NextPair ==
    \/ execute_single(<< "S" >>)
    \/ execute_program(<< "E" >>)
    \/ RunStep

SpecPair == InitPair /\ [][NextPair]_vars

\* The 16-bit value of the pair the opcode op names in bits 4 and 5: BC, DE,
\* HL or SP
PairValue(m, op) ==
    IF PairOf(op) = 3 THEN m.regs.SP
    ELSE 256 * m.regs[PairHi(PairOf(op))] + m.regs[PairLo(PairOf(op))]

\* C12: INX and DCX on BC, DE, HL and SP change the 16-bit value by +1 / -1
\* modulo 65536, never change S, Z, P, CY or AC, and set K = 1 exactly when
\* INX wraps FFFFH to 0000H or DCX wraps 0000H to FFFFH, and K = 0 otherwise.
C12_InxDcx ==
    \A i \in Done :
        LET e == hist[i]
            v == PairValue(e.pre, e.op)
            step == IF e.op \in InxOps THEN 1 ELSE 0 - 1
            wraps == (e.op \in InxOps /\ v = 65535) \/ (e.op \in DcxOps /\ v = 0)
        IN  (e.op \in InxOps \cup DcxOps /\ v \in Word) =>
                /\ PairValue(e.post, e.op) = (v + step) % 65536
                /\ KeepsSZPCYAC(e)
                /\ e.post.flags.K = (IF wraps THEN 1 ELSE 0)

\* DCX SP from 0000H with K clear: SP is FFFFH and K is set; then an INX H
\* from 00FFH carries into H and clears K
C12_Witness ==
    /\ Len(hist) = 2
    /\ hist[1].op = 59 /\ hist[1].pre.regs.SP = 0 /\ hist[1].pre.flags.K = 0
    /\ hist[1].post.regs.SP = 65535 /\ hist[1].post.flags.K = 1
    /\ hist[2].op = 35 /\ PairValue(hist[2].pre, 35) = 255
    /\ regs.H = 1 /\ regs.L = 0 /\ flags.K = 0

\* C13: DAD rp for rp in BC, DE, HL, SP sets HL = (HL + rp) mod 65536 and CY =
\* bit 16 of the unbounded sum HL + rp, leaves S, Z, P, AC, K, V and every
\* register other than H and L (and PC) unchanged, and adds 10 cycles.
C13_Dad ==
    \A i \in Done :
        LET e == hist[i]
            hl == PairValue(e.pre, 41)
            rp == PairValue(e.pre, e.op)
        IN  (e.op \in { 9, 25, 41, 57 } /\ hl \in Word /\ rp \in Word) =>
                /\ PairValue(e.post, 41) = (hl + rp) % 65536
                /\ e.post.flags.CY = ((hl + rp) \div 65536) % 2
                /\ \A k \in { "S", "Z", "P", "AC", "K", "V" } :
                       e.post.flags[k] = e.pre.flags[k]
                /\ \A r \in (DOMAIN e.pre.regs) \ { "H", "L", "PC" } :
                       e.post.regs[r] = e.pre.regs[r]
                /\ DOMAIN e.post.regs = DOMAIN e.pre.regs
                /\ e.post.periods = e.pre.periods + 10

\* DAD SP with HL = SP = 8000H and no carry before: HL is 0000H, CY is set
C13_Witness ==
    \E i \in Done :
        /\ hist[i].op = 57
        /\ PairValue(hist[i].pre, 41) = 32768 /\ hist[i].pre.regs.SP = 32768
        /\ hist[i].pre.flags.CY = 0
        /\ hist[i].post.regs.H = 0 /\ hist[i].post.regs.L = 0
        /\ hist[i].post.flags.CY = 1 /\ hist[i].post.flags.Z = 0

-----------------------------------------------------------------------------
(* Call scenarios: a CALL t or an RST n at p, with a RET at t and at every  *)
(* address 0, 8, ..., 64 an RST can lead to; the stack at either end of     *)
(* memory, in the middle, and on top of the RET at t.                       *)

RstOps == { 199 + 8 * n : n \in 0..7 }

CallAt == { 256, 4660, 65533, 65534 }

CallTargets == { 35, 512, 8192 }

CallSPs == { 0, 1, 8192, 8193, 8194 }

\* Memory with the bytes of code at p, p+1, ..., an address above 0FFFFH
\* continuing at 0 (M FFFE .. and M 0 .. set such a program)
RECURSIVE LoadWrapped(_, _, _)
LoadWrapped(mem, p, code) ==
    IF code = << >> THEN mem
    ELSE LoadWrapped(Wr(mem, p % 65536, Head(code)), p + 1, Tail(code))

\* A RET at each of the addresses in ts
RECURSIVE Rets(_, _)
Rets(mem, ts) ==
    IF ts = {} THEN mem
    ELSE LET t == CHOOSE x \in ts : TRUE IN Rets(Wr(mem, t, 201), ts \ {t})

InitCall ==
    /\ Fresh
    /\ limit = MaxCallSteps
    /\ \E p \in CallAt, sp \in CallSPs, t \in CallTargets :
       \E code \in { << 205, t % 256, t \div 256 >> } \cup { << op >> : op \in RstOps } :
          /\ regs = [regs0 EXCEPT !.PC = p, !.SP = sp]
          /\ flags = flags0
          /\ memory = LoadWrapped(Rets(memory0, { 8 * n : n \in 0..8 } \cup { t }), p, code)

NextCall ==
    \/ execute_single(<< "S" >>)
    \/ execute_program(<< "E" >>)
    \/ RunStep

SpecCall == InitCall /\ [][NextCall]_vars

\* The target of the three-byte opcode at the PC of m, its operand bytes
\* fetched modulo 65536
TargetOf(m) ==
    Rd(m.memory, (m.regs.PC + 1) % 65536) + 256 * Rd(m.memory, (m.regs.PC + 2) % 65536)

\* C14: for any SP and any CALL at p whose target t is not the GETLIN hook
\* address 0020H, the two pushed bytes not lying on the RET opcode at t:
\* CALL t and then the RET at t leave PC = p + 3, SP as it was at first, and
\* the cycle counter 27 higher.  (An E command between the two opcodes sets
\* the counter to 0: the two are taken with no command between them.)
C14_CallRet ==
    \A i \in 1..Len(hist) :
        LET e == hist[i]
            t == TargetOf(e.pre)
            sp == e.pre.regs.SP
        IN  (/\ e.op = 205 /\ t # 32
             /\ e.pre.regs.PC \in Word /\ sp \in Word
             /\ Rd(e.pre.memory, t) = 201
             /\ t \notin { (sp - 1) % 65536, (sp - 2) % 65536 }) =>
                /\ ~e.post.crashed
                /\ e.post.regs.PC = t
                /\ (i + 1 <= Len(hist) /\ hist[i + 1].pre.periods = e.post.periods) =>
                      /\ hist[i + 1].op = 201
                      /\ ~hist[i + 1].post.crashed
                      /\ hist[i + 1].post.regs.PC = (e.pre.regs.PC + 3) % 65536
                      /\ hist[i + 1].post.regs.SP = sp
                      /\ hist[i + 1].post.periods = e.pre.periods + 27

\* The n of the RST opcode op
RstNumber(op) == (op - 199) \div 8

\* C15: RST n (opcode C7H + 8 n, n = 0..7) sets PC to 8 n (RST 0 goes to
\* 0000H, RST 1 to 0008H, ..., RST 7 to 0038H) and adds 11 cycles.
C15_RstVector ==
    \A i \in Done :
        hist[i].op \in RstOps =>
            /\ hist[i].post.regs.PC = 8 * RstNumber(hist[i].op)
            /\ hist[i].post.periods = hist[i].pre.periods + 11

\* C16: RST n stores the pushed address in the stack layout of CALL (high
\* byte at SP - 1, low byte at SP - 2, SP decreased by 2), so that a RET
\* executed at the restart vector sets PC to exactly the 16-bit value RST
\* pushed and restores SP.
C16_RstLayout ==
    \A i \in Done :
        LET e == hist[i]
            sp == e.pre.regs.SP
            hi == Rd(e.post.memory, (sp - 1) % 65536)
            lo == Rd(e.post.memory, (sp - 2) % 65536)
            pushed == { e.pre.regs.PC, (e.pre.regs.PC + 1) % 65536 }
        IN  (e.op \in RstOps /\ sp \in Word /\ e.pre.regs.PC \in Word) =>
                /\ 256 * hi + lo \in pushed
                /\ e.post.regs.SP = (sp - 2) % 65536
                /\ (i + 1 \in Done /\ hist[i + 1].op = 201) =>
                      /\ hist[i + 1].post.regs.PC = 256 * hi + lo
                      /\ hist[i + 1].post.regs.SP = sp

-----------------------------------------------------------------------------
(* Run scenarios: two opcodes at 0100H out of NOP, ARHL, HLT and the eleven *)
(* undefined ones; the B, E and S commands with a good address, with one    *)
(* that is no hex number, and with one above FFFF.                          *)

RunOps == UndefinedOps \cup { 0, 16, 118 }

\* the opcode after it: NOP, ARHL, HLT, two undefined ones
NextOps == { 0, 16, 118, 8, 237 }

\* H and L before an ARHL
RunHL == { << 0, 0 >>, << 129, 1 >>, << 255, 254 >> }

\* '0100', '0101'
GoodTokens == { << 48, 49, 48, 48 >>, << 48, 49, 48, 49 >> }

\* 'XYZ', '10000'
BadTokens == { << 88, 89, 90 >>, << 49, 48, 48, 48, 48 >> }

InitRun ==
    /\ Fresh
    /\ limit = MaxRunSteps
    /\ \E op1 \in RunOps, op2 \in NextOps, hl \in RunHL, c \in {0, 1} :
          /\ regs = [regs0 EXCEPT !.H = hl[1], !.L = hl[2], !.PC = 256, !.SP = 8192]
          /\ flags = [flags0 EXCEPT !.CY = c]
          /\ memory = Load(memory0, 256, << op1, op2 >>)

NextRun ==
    \/ \E tok \in GoodTokens \cup BadTokens : breakpoint_set(<< "B", tok >>)
    \/ execute_single(<< "S" >>)
    \/ \E tok \in BadTokens : execute_single(<< "S", tok >>)
    \/ execute_program(<< "E" >>)
    \/ \E tok \in { << 48, 49, 48, 48 >> } \cup BadTokens : execute_program(<< "E", tok >>)
    \/ RunStep
    \/ RunExit

SpecRun == InitRun /\ [][NextRun]_vars

\* C17: during a run (E) the comparison of PC with the breakpoint precedes
\* every fetch.  No opcode the run executes lies at the breakpoint address; a
\* run whose PC is the breakpoint ends in its next step with no opcode
\* executed and registers, flags, memory and ports as they were; and the E
\* command that starts such a run touches none of them but the PC it is given.
C17_BreakpointBeforeFetch ==
    [][ /\ (running /\ hist' # hist)
            => hist'[Len(hist')].pre.regs.PC # breakpoint
        /\ (running /\ regs.PC = breakpoint)
            => /\ ~running'
               /\ hist' = hist
               /\ regs' = regs /\ flags' = flags
               /\ memory' = memory /\ port' = port
        /\ (~running /\ running' /\ regs'.PC = breakpoint)
            => /\ hist' = hist
               /\ regs' = [regs EXCEPT !.PC = breakpoint]
               /\ flags' = flags /\ memory' = memory /\ port' = port ]_vars

\* A run from 0100H with the breakpoint at 0101H has executed the one opcode at
\* 0100H (periods, zeroed by E, count it) and stands at the breakpoint
C17_Witness ==
    /\ running
    /\ breakpoint = 257
    /\ regs.PC = breakpoint
    /\ Len(hist) = 1
    /\ hist[1].pre.regs.PC = 256
    /\ periods = hist[1].post.periods
    /\ periods > 0
    /\ hist[1].pre.periods = 0

\* The opcodes 08, 18, 20, 28, 30, 38, CB, D9, DD, ED, FD
NoInstruction == { 8, 24, 32, 40, 48, 56, 203, 217, 221, 237, 253 }

\* Registers, flags, memory, ports and the cycle count of an executed opcode
Visible(m) == << m.regs, m.flags, m.memory, m.port, m.periods >>

\* C18: an opcode out of 08, 18, 20, 28, 30, 38, CB, D9, DD, ED, FD changes no
\* register, flag, memory cell, port, PC or cycle count, and a run that
\* fetches one ends in its next step with nothing more executed.  Opcode 10 is
\* ARHL: CY <- L & 1, L <- (L >> 1) | ((H & 1) << 7), H <- (H >> 1) | (H & 80H),
\* 7 cycles, PC + 1; a run that executes it is still running and its next step
\* executes an opcode unless PC has come to the breakpoint.
C18_UndefinedAndARHL ==
    /\ [](\A i \in Done :
            LET e == hist[i]
                H == e.pre.regs.H
                L == e.pre.regs.L
            IN  /\ e.op \in NoInstruction => Visible(e.post) = Visible(e.pre)
                /\ e.op = 16 =>
                      /\ e.post.flags = [e.pre.flags EXCEPT !.CY = L % 2]
                      /\ e.post.regs =
                            [e.pre.regs EXCEPT
                                !.L = (L \div 2) + 128 * (H % 2),
                                !.H = (H \div 2) + (IF H >= 128 THEN 128 ELSE 0),
                                !.PC = (e.pre.regs.PC + 1) % 65536]
                      /\ e.post.periods = e.pre.periods + 7
                      /\ e.post.memory = e.pre.memory
                      /\ e.post.port = e.pre.port)
    /\ [][ /\ (running /\ hist' # hist /\ hist'[Len(hist')].op \in NoInstruction)
               => running' /\ invalid' = TRUE
           /\ (running /\ invalid = TRUE)
               => /\ ~running'
                  /\ hist' = hist
                  /\ << regs', flags', memory', port', periods' >>
                        = << regs, flags, memory, port, periods >>
           /\ (running /\ hist' # hist /\ hist'[Len(hist')].op = 16)
               => running' /\ invalid' = FALSE
           /\ (running /\ invalid = FALSE /\ regs.PC # breakpoint)
               => hist' # hist ]_vars

\* A run from 0100H has shifted HL = 8101H with ARHL (7 cycles since E), gone
\* on to the ED after it and ended there
C18_Witness ==
    /\ ~running /\ invalid = FALSE
    /\ Len(hist) = 2
    /\ hist[1].op = 16 /\ hist[1].pre.periods = 0
    /\ hist[1].pre.regs.H = 129 /\ hist[1].pre.regs.L = 1
    /\ hist[2].op = 237
    /\ regs.H = 192 /\ regs.L = 128 /\ flags.CY = 1
    /\ regs.PC = 257
    /\ periods = 7

\* C19: HLT (76H) moves PC on by 1, adds 7 cycles and changes nothing else,
\* and a run that executes it is over: the opcode after it is executed only by
\* a later command, whatever the breakpoint is.
C19_Hlt ==
    /\ [](\A i \in Done :
            LET e == hist[i] IN
            e.op = 118 =>
                e.post = [e.pre EXCEPT !.regs.PC = (@ + 1) % 65536,
                                       !.periods = @ + 7,
                                       !.single_step = 0])
    /\ [][ /\ (running /\ hist' # hist /\ hist'[Len(hist')].op = 118)
               => ~running'
           /\ (~running /\ hist' # hist)
               => hist'[Len(hist')].pre.single_step = 1 ]_vars

\* A run from 0100H has executed the HLT there and nothing after it: it is
\* over at 0101H after 7 cycles, the NOP at 0101H not executed and the
\* breakpoint not at 0101H
C19_Witness ==
    /\ ~running
    /\ Len(hist) = 1
    /\ hist[1].op = 118
    /\ hist[1].pre.single_step = 0
    /\ hist[1].pre.regs.PC = 256
    /\ regs.PC = 257 /\ breakpoint # 257
    /\ Rd(memory, 257) = 0
    /\ periods = 7

\* C20: a B, E or S command whose address is no hex number or is above FFFF
\* is discarded: the breakpoint, PC and the other registers, the flags and
\* memory are as they were before the command, no opcode is executed and no
\* run begins.
C20_BadAddressDiscarded ==
    [][ \A tok \in BadTokens :
            (\/ breakpoint_set(<< "B", tok >>)
             \/ execute_program(<< "E", tok >>)
             \/ execute_single(<< "S", tok >>))
            => /\ breakpoint' = breakpoint
               /\ regs' = regs /\ flags' = flags /\ memory' = memory
               /\ hist' = hist
               /\ running' = running ]_vars

-----------------------------------------------------------------------------
(* F and R sessions: the F and R commands on the machine as the module     *)
(* creates it, with names the flag set and the register file hold and one  *)
(* they do not, and with values in range, out of range and unreadable.     *)

FlagNames == { "S", "CY", "X" }

\* '0', '1', '2', 'Z'
BitTokens == { << 48 >>, << 49 >>, << 50 >>, << 90 >> }

RegNames == { "A", "SP", "X" }

\* '12', '100', '1234', '10000', 'ZZ'
ValueTokens == { << 49, 50 >>, << 49, 48, 48 >>, << 49, 50, 51, 52 >>,
                 << 49, 48, 48, 48, 48 >>, << 90, 90 >> }

InitFR ==
    /\ Fresh
    /\ limit = 0
    /\ regs = regs0
    /\ flags = flags0
    /\ memory = memory0

NextFR ==
    \/ \E flag \in FlagNames, tok \in BitTokens : flag_set(<< "F", flag, tok >>)
    \/ \E flag \in FlagNames : flag_set(<< "F", flag >>)
    \/ \E reg \in RegNames, tok \in ValueTokens : display_registers(<< "R", reg, tok >>)
    \/ display_registers(<< "R" >>)

SpecFR == InitFR /\ [][NextFR]_vars

\* C21: after any sequence of F and R commands the flag set holds exactly the
\* seven flags S, Z, K, AC, P, V, CY, each 0 or 1, and the register file holds
\* exactly the names it was created with, the 8-bit registers in 0..255 and
\* PC and SP in 0..65535.
C21_NamesAndRangesKept ==
    /\ DOMAIN flags = { "S", "Z", "K", "AC", "P", "V", "CY" }
    /\ \A k \in DOMAIN flags : flags[k] \in { 0, 1 }
    /\ DOMAIN regs = DOMAIN regs0
    /\ \A k \in DOMAIN regs :
          regs[k] \in (IF k \in { "PC", "SP" } THEN 0..65535 ELSE 0..255)

-----------------------------------------------------------------------------
(* M sessions on the machine as the module creates it: M commands with an   *)
(* address inside memory, at its end, above it and unreadable, and up to    *)
(* two byte tokens, good and bad.                                           *)

\* '0100', 'FFFF', '10000', 'ZZ'
AddrTokens == { << 48, 49, 48, 48 >>, << 70, 70, 70, 70 >>,
                << 49, 48, 48, 48, 48 >>, << 90, 90 >> }

\* 'DB', '05', '11', '100', 'ZZ'
ByteTokens == { << 68, 66 >>, << 48, 53 >>, << 49, 49 >>, << 49, 48, 48 >>,
                << 90, 90 >> }

\* The byte tokens of an M command: none, one or two
ByteLists ==
    { << >> } \cup { << b >> : b \in ByteTokens }
              \cup { << b, c >> : b \in ByteTokens, c \in ByteTokens }

InitMem ==
    /\ Fresh
    /\ limit = 0
    /\ regs = regs0
    /\ flags = flags0
    /\ memory = memory0

NextMem ==
    \/ \E a \in AddrTokens, bs \in ByteLists : memory_set(<< "M", a >> \o bs)
    \/ memory_set(<< "M" >>)

SpecMem == InitMem /\ [][NextMem]_vars

\* The address and the byte tokens of an M command are all good: hex numbers,
\* the address in 0..FFFF, the bytes in 0..255, the last byte at or below FFFF
GoodM(list) ==
    /\ Len(list) >= 2
    /\ ParseHex(list[2]).ok /\ ParseHex(list[2]).val \in 0..65535
    /\ \A i \in 3..Len(list) : ParseHex(list[i]).ok /\ ParseHex(list[i]).val \in 0..255
    /\ ParseHex(list[2]).val + (Len(list) - 2) - 1 <= 65535

\* C22: the M command is all-or-nothing.  With a good address A and good
\* bytes B1..Bn it sets memory[A + i - 1] = Bi and no other cell; with a byte
\* token that is no hex number or is outside 0..255, or with a write that
\* would pass FFFF, it leaves memory as it was.
C22_MAllOrNothing ==
    [][ \A a \in AddrTokens, bs \in ByteLists :
            LET list == << "M", a >> \o bs
                A == ParseHex(a).val
            IN  memory_set(list) =>
                    IF GoodM(list)
                    THEN \A x \in (DOMAIN memory) \cup (DOMAIN memory') \cup
                                    (A..(A + Len(bs) - 1)) :
                            Rd(memory', x) =
                                IF x \in A..(A + Len(bs) - 1)
                                THEN ParseHex(bs[x - A + 1]).val
                                ELSE Rd(memory, x)
                    ELSE memory' = memory ]_vars

-----------------------------------------------------------------------------
(* Port scenarios: three instructions at 0100H out of OUT d, IN d and CALL  *)
(* GETLIN, with A a line feed, a carriage return or a letter and the        *)
(* console at its first or its last column; S and E execute them and P      *)
(* commands come in between.                                                *)

\* The console port, the status port and an ordinary one
PortNumbers == { 2, 3, 5 }

\* OUT d, IN d, CALL 0020H
PortInstrs ==
    { << 211, d >> : d \in PortNumbers } \cup { << 219, d >> : d \in PortNumbers }
        \cup { << 205, 32, 0 >> }

\* LF, CR, 'A'
PortBytes == { 10, 13, 65 }

\* '05', '03'
PortTokens == { << 48, 53 >>, << 48, 51 >> }

\* Fresh but for the console: the session has printed col - 1 letters
InitPort ==
    /\ periods = 0 /\ invalid = FALSE /\ breakpoint = 0 - 1 /\ single_step = 0
    /\ fload = FALSE /\ fname = << >> /\ fsize = 0 /\ fline = 0 /\ disk = disk0
    /\ crashed = FALSE /\ running = FALSE /\ shown = << >> /\ hist = << >>
    /\ cl = << >> /\ exit_status = << >>
    /\ limit = MaxPortSteps
    /\ flags = flags0
    /\ \E i1 \in PortInstrs, i2 \in PortInstrs, i3 \in PortInstrs,
          a \in PortBytes, col \in { 1, columns } :
          /\ regs = [regs0 EXCEPT !.A = a, !.PC = 256, !.SP = 8192]
          /\ memory = Load(memory0, 256, i1 \o i2 \o i3)
          /\ column = col
          /\ port = IF col = 1 THEN [d \in {} |-> 0] ELSE PortWr([d \in {} |-> 0], 2, 65)

NextPort ==
    \/ execute_single(<< "S" >>)
    \/ execute_program(<< "E" >>)
    \/ RunStep
    \/ \E n \in PortTokens : port_set(<< "P", n, << 49, 49 >> >>)
    \/ \E n \in PortTokens : port_set(<< "P", n >>)

SpecPort == InitPort /\ [][NextPort]_vars

\* C23: P N B sets port N to the byte B, the value an IN N (N other than 3)
\* then loads into A; P N alone leaves every port as it was.
C23_PSetsPort ==
    [][ \A n \in PortTokens :
            /\ port_set(<< "P", n, << 49, 49 >> >>)
                  => PortRd(port', ParseHex(n).val) = 17
            /\ port_set(<< "P", n >>) => port' = port ]_vars

\* The port an executed OUT or IN names: the byte after the opcode
PortOf(e) == Rd(e.pre.memory, e.pre.regs.PC + 1)

\* PC moved on by 2, 10 cycles added, no flag changed
PortTiming(e) ==
    /\ e.post.regs.PC = (e.pre.regs.PC + 2) % 65536
    /\ e.post.periods = e.pre.periods + 10
    /\ e.post.flags = e.pre.flags

\* C27: OUT d stores A into port[d], and a later IN d with no OUT d in between
\* loads that value into A, for every port d other than 3; IN 3 sets A = 1
\* whatever port 3 holds; OUT and IN change no flag, add 10 cycles and move PC
\* on by 2.
C27_OutIn ==
    \A i \in Done :
        LET e == hist[i] IN
        /\ e.op = 211 =>
              /\ PortTiming(e)
              /\ PortRd(e.post.port, PortOf(e)) = e.pre.regs.A
              /\ \A j \in Done :
                    (/\ i < j /\ hist[j].op = 219
                     /\ PortOf(hist[j]) = PortOf(e) /\ PortOf(e) # 3
                     /\ \A k \in (i + 1)..(j - 1) :
                           ~(hist[k].op = 211 /\ PortOf(hist[k]) = PortOf(e)))
                    => hist[j].post.regs.A = e.pre.regs.A
        /\ e.op = 219 =>
              /\ PortTiming(e)
              /\ PortOf(e) = 3 => e.post.regs.A = 1
              /\ PortOf(e) # 3 => e.post.regs.A = PortRd(e.pre.port, PortOf(e))

\* OUT 5 with A = 'A', IN 3, IN 5: A is 1 after the second and 'A' again
\* after the third; and port 3, written 'A' by an OUT 3, still reads 1
C27_Witness ==
    /\ Len(hist) = 3
    /\ hist[1].op = 211 /\ PortOf(hist[1]) = 5 /\ hist[1].pre.regs.A = 65
    /\ hist[2].op = 219 /\ PortOf(hist[2]) = 3 /\ hist[2].post.regs.A = 1
    /\ hist[3].op = 219 /\ PortOf(hist[3]) = 5 /\ hist[3].post.regs.A = 65
    /\ ~crashed

\* C28: the console column stays within 1..columns through OUT 2 and GETLIN:
\* OUT 2 of a line feed leaves it, of a carriage return sets it to 1, and of
\* any other byte adds 1 and goes back to 1 once that would pass columns.
C28_Column ==
    /\ column \in 1..columns
    /\ \A i \in Done :
          LET e == hist[i] IN
          (e.op = 211 /\ PortOf(e) = 2) =>
              e.post.column =
                  IF e.pre.regs.A = 10 THEN e.pre.column
                  ELSE IF e.pre.regs.A = 13 THEN 1
                  ELSE IF e.pre.column + 1 > columns THEN 1
                  ELSE e.pre.column + 1

\* At the last column an OUT 2 of 'A' has gone to column 1, the next to
\* column 2, and a GETLIN after them has put the console back to column 1
C28_Witness ==
    /\ Len(hist) = 3
    /\ hist[1].op = 211 /\ PortOf(hist[1]) = 2 /\ hist[1].pre.regs.A = 65
    /\ hist[1].pre.column = columns /\ hist[1].post.column = 1
    /\ hist[2].op = 211 /\ PortOf(hist[2]) = 2 /\ hist[2].post.column = 2
    /\ hist[3].op = 205 /\ column = 1
    /\ ~crashed

-----------------------------------------------------------------------------
(* Load scenarios: the process from its start, with a file f of one to      *)
(* three lines and a file h of two records on the host, and no file g.  f   *)
(* or g is named on the command line or there is no argument, and L         *)
(* commands load f, g and h in any order.                                   *)

\* ':02010000AABB98': AA, BB at 0100H
RecData == << 58, 48, 50, 48, 49, 48, 48, 48, 48, 65, 65, 66, 66, 57, 56, 10 >>

\* ':010101051100': 11 at 0101H, with record type 05 and a wrong checksum
RecOdd == << 58, 48, 49, 48, 49, 48, 49, 48, 53, 49, 49, 48, 48, 10 >>

\* ':00000001FF': no bytes, the end-of-file record
RecEnd == << 58, 48, 48, 48, 48, 48, 48, 48, 49, 70, 70, 10 >>

\* ':02FFFF00778801': 77 at FFFFH and 88 after it
RecTop == << 58, 48, 50, 70, 70, 70, 70, 48, 48, 55, 55, 56, 56, 48, 49, 10 >>

\* 'XYZ': no record at all
RecBad == << 88, 89, 90, 10 >>

FileLines == { RecData, RecOdd, RecEnd, RecTop, RecBad }

\* The files of one to MaxLines lines
Files ==
    UNION { [1..n -> FileLines] : n \in 1..MaxLines }

\* 'f', 'g', 'h'
NameF == << 102 >>
NameG == << 103 >>
NameH == << 104 >>

\* ':0101010055A8', ':010200006697', ':00000001FF': 55 at 0101H, 66 at 0200H
FileH == << << 58, 48, 49, 48, 49, 48, 49, 48, 48, 53, 53, 65, 56, 10 >>, << 58, 48, 49, 48, 50, 48, 48, 48, 48, 54, 54, 57, 55, 10 >>, RecEnd >>

\* Fresh but for the host's files
InitLoad ==
    /\ port = [d \in {} |-> 0] /\ column = 1
    /\ periods = 0 /\ invalid = FALSE /\ breakpoint = 0 - 1 /\ single_step = 0
    /\ fload = FALSE /\ fname = << >> /\ fsize = 0 /\ fline = 0
    /\ crashed = FALSE /\ running = FALSE /\ shown = << >> /\ hist = << >>
    /\ cl = << >> /\ exit_status = << >>
    /\ limit = 0
    /\ regs = regs0
    /\ flags = flags0
    /\ memory = memory0
    /\ \E file \in Files :
          disk = [n \in { NameF, NameH } |-> IF n = NameF THEN file ELSE FileH]

NextLoad ==
    \/ \E name \in { NameF, NameG } : main_load(name)
    \/ \E name \in { NameF, NameG, NameH } : load_file(<< "L", name >>)
    \/ load_file(<< "L" >>)
    \/ quit

SpecLoad == InitLoad /\ [][NextLoad]_vars

\* C24: when the HEX file named on the command line cannot be opened, the
\* process ends with an exit code other than 0 and does not go on to the
\* prompt.
C24_ExitOnMissingFile ==
    [][ \A name \in { NameF, NameG } :
            (main_load(name) /\ name \notin DOMAIN disk)
            => (exit_status' # << >> /\ exit_status'[1] # 0) ]_vars

\* The fields of a record ':LLAAAATT<data>CC'
RecLL(str) == ParseHex(Substr(str, 1, 3)).val
RecAAAA(str) == ParseHex(Substr(str, 3, 7)).val
RecByte(str, i) == ParseHex(Substr(str, 9 + 2 * i, 11 + 2 * i)).val

\* A line is a record: a colon, hex digits for LL, AAAA, TT, LL bytes of
\* payload and CC, and the end of the line
IsRecord(str) ==
    /\ Len(str) >= 12
    /\ str[1] = 58 /\ str[Len(str)] = 10
    /\ \A k \in 2..(Len(str) - 1) : HexDigit(str[k]) >= 0
    /\ Len(str) = 12 + 2 * RecLL(str)

\* Memory with payload byte i of a record at AAAA + i, for the cells there are
RECURSIVE Payload(_, _, _)
Payload(mem, str, i) ==
    IF i >= RecLL(str) THEN mem
    ELSE Payload(IF RecAAAA(str) + i > 65535 THEN mem
                 ELSE Wr(mem, RecAAAA(str) + i, RecByte(str, i)), str, i + 1)

\* Memory with the payload of the records from line k up to the first record
\* with LL = 0, or to the end of the file
RECURSIVE Image(_, _, _)
Image(mem, lines, k) ==
    IF k > Len(lines) THEN mem
    ELSE IF RecLL(lines[k]) = 0 THEN mem
    ELSE Image(Payload(mem, lines[k], 0), lines, k + 1)

\* C25: loading a HEX file writes payload byte i of every record before the
\* first one with LL = 0 to memory[AAAA + i], whatever the record type and
\* the checksum are, leaves every other cell as it was and loads nothing of
\* the records after the one with LL = 0.
C25_LoadImage ==
    [][ \A name \in { NameF, NameG, NameH } :
            (/\ load_file(<< "L", name >>) \/ main_load(name)
             /\ name \in DOMAIN disk
             /\ \A k \in 1..Len(disk[name]) : IsRecord(disk[name][k]))
            => memory' = Image(memory, disk[name], 1) ]_vars

\* C26: loading the same HEX file twice in succession gives the memory image
\* that loading it once gives, from any memory before and for files whose
\* load stops part-way: in the memory a load has left, the load of the same
\* file changes nothing.
C26_LoadTwice ==
    \A name \in DOMAIN disk :
        cl = << "L", name >> => LoadLines(memory, disk[name], 1) = memory

\* f holds a record, a line that is none and another record; it has been
\* loaded over the image of h: AA, BB of its first record are in memory, the
\* 66 of h is still at 0200H, and the load has stopped before the third line
C26_Witness ==
    /\ cl = << "L", NameF >>
    /\ disk[NameF] = << RecData, RecBad, RecOdd >>
    /\ Rd(memory, 256) = 170 /\ Rd(memory, 257) = 187
    /\ Rd(memory, 512) = 102

\* C29: DAA leaves S, Z and P those of the final A: Z = 1 iff A = 0, S bit 7
\* of A, P its even parity, from every A, CY and AC.
C29_DaaFlags ==
    \A i \in Done :
        hist[i].op = 39 => ZSPReflect(hist[i].post.flags, hist[i].post.regs.A)

\* JNZ, JZ, JNC, JC, JPO, JPE, JP, JM
CondJumpOps == { 194, 202, 210, 218, 226, 234, 242, 250 }

\* The condition of a conditional jump holds in the flags f
Taken(op, f) ==
    LET flag == << "Z", "CY", "P", "S" >>[((op - 194) \div 16) + 1]
    IN  f[flag] = (IF (op - 194) % 16 = 0 THEN 0 ELSE 1)

\* C30: every conditional jump adds exactly 10 cycles, taken or not; taken,
\* PC becomes the operand word, low byte first; not taken, PC + 3.
C30_CondJump ==
    \A i \in Done :
        LET e == hist[i]
            pc == e.pre.regs.PC
        IN  e.op \in CondJumpOps =>
                /\ e.post.periods = e.pre.periods + 10
                /\ e.post.regs.PC =
                      IF Taken(e.op, e.pre.flags)
                      THEN Rd(e.pre.memory, pc + 1) + 256 * Rd(e.pre.memory, pc + 2)
                      ELSE (pc + 3) % 65536

\* CNZ, CZ, CNC, CC, CPO, CPE, CP, CM
CondCallOps == { 196, 204, 212, 220, 228, 236, 244, 252 }

\* RNZ, RZ, RNC, RC, RPO, RPE, RP, RM
CondReturnOps == { 192, 200, 208, 216, 224, 232, 240, 248 }

\* C31: a conditional call adds 17 cycles when taken and 11 when not, a
\* conditional return 11 when taken and 5 when not.
C31_CondCallReturnCycles ==
    \A i \in Done :
        LET e == hist[i]
            added == e.post.periods - e.pre.periods
        IN  /\ e.op \in CondCallOps =>
                  added = (IF Taken(e.op - 2, e.pre.flags) THEN 17 ELSE 11)
            /\ e.op \in CondReturnOps =>
                  added = (IF Taken(e.op + 2, e.pre.flags) THEN 11 ELSE 5)

\* An executed CALL 0020H
IsGetlin(e) ==
    e.op = 205 /\ Rd(e.pre.memory, e.pre.regs.PC + 1) = 32
               /\ Rd(e.pre.memory, e.pre.regs.PC + 2) = 0

\* C32: CALL 0020H pushes nothing.  SP and every register but PC are as
\* before, PC is PC + 3 and not 0020H, column is 1, and memory differs from
\* what it was only in the input buffer: the line read lies from FE03H upward
\* with 0DH after it.
C32_Getlin ==
    \A i \in Done :
        LET e == hist[i] IN
        IsGetlin(e) =>
            /\ e.post.regs = [e.pre.regs EXCEPT !.PC = @ + 3]
            /\ e.post.column = 1
            /\ \E line \in Lines :
                  \A a \in (DOMAIN e.pre.memory) \cup (DOMAIN e.post.memory)
                              \cup (KBDBFR..(KBDBFR + Len(line))) :
                      Rd(e.post.memory, a) =
                          IF a \in KBDBFR..(KBDBFR + Len(line) - 1)
                          THEN line[a - KBDBFR + 1]
                          ELSE IF a = KBDBFR + Len(line) THEN 13
                          ELSE Rd(e.pre.memory, a)

\* From column 80 a CALL 0020H at 0100H has read the line 'A': 41H, 0DH at
\* FE03H, column 1, PC at 0103H, SP where it was and nothing on the stack
C32_Witness ==
    /\ Len(hist) >= 1 /\ IsGetlin(hist[1])
    /\ hist[1].pre.column = columns /\ hist[1].post.column = 1
    /\ Rd(hist[1].post.memory, KBDBFR) = 65
    /\ Rd(hist[1].post.memory, KBDBFR + 1) = 13
    /\ hist[1].post.regs.PC = 259
    /\ hist[1].post.regs.SP = 8192
    /\ Rd(hist[1].post.memory, 8191) = 0 /\ Rd(hist[1].post.memory, 8190) = 0
    /\ ~hist[1].post.crashed

\* Instructions a FLOUT session may run to
MaxFloutSteps == 18

\* 'f ', the name 'f' with a space after it
NameFSpace == << 102, 32 >>

\* The messages a program hands to FLOUT: '$SIZE ', 'f', 'f ', ' LINE ',
\* '$READ '
FloutMsgs == << MsgSize, NameF, NameFSpace, MsgLine \o << 32 >>, MsgRead >>

\* Where message i lies, zero-terminated
MsgAddr(i) == 768 + 16 * i

\* 'A\n' and 'BC', the two lines readlines() gives for the file 'f'
FileF == << << 65, 10 >>, << 66, 67 >> >>

\* LXI D,msg / CALL 0023H for each message of a script
RECURSIVE FloutProgram(_)
FloutProgram(script) ==
    IF script = << >> THEN << >>
    ELSE << 17, MsgAddr(Head(script)) % 256, MsgAddr(Head(script)) \div 256,
            205, 35, 0 >> \o FloutProgram(Tail(script))

\* The byte a session's memory holds at a: a RET at 0023H, the program at
\* 0100H, the messages
FloutByte(prog, a) ==
    LET i == (a - 768) \div 16
        k == ((a - 768) % 16) + 1
    IN  IF a = 35 THEN 201
        ELSE IF a >= 256 /\ a < 256 + Len(prog) THEN prog[a - 255]
        ELSE IF a >= 768 /\ i \in 1..Len(FloutMsgs) /\ k <= Len(FloutMsgs[i])
        THEN FloutMsgs[i][k]
        ELSE 0

\* The memory of a session, its zero cells left out
FloutImage(prog) ==
    [a \in { x \in 0..1023 : FloutByte(prog, x) # 0 } |-> FloutByte(prog, a)]

\* What a session starts with: nothing, or '$SIZE ', 'f', ' LINE '
FloutPrefixes == { << >>, << 1, 2, 4 >> }

\* A program of FLOUT calls at 0100H, a RET at 0023H, the stack at 2000H and
\* the file 'f' on the host
InitFlout ==
    /\ port = [d \in {} |-> 0] /\ column = 1
    /\ periods = 0 /\ invalid = FALSE /\ breakpoint = 0 - 1 /\ single_step = 0
    /\ fload = FALSE /\ fname = << >> /\ fsize = 0 /\ fline = 0
    /\ crashed = FALSE /\ running = FALSE /\ shown = << >> /\ hist = << >>
    /\ cl = << >> /\ exit_status = << >>
    /\ limit = MaxFloutSteps
    /\ flags = flags0
    /\ regs = [regs0 EXCEPT !.PC = 256, !.SP = 8192]
    /\ disk = [n \in { NameF } |-> FileF]
    /\ \E pre \in FloutPrefixes, script \in [1..3 -> 1..Len(FloutMsgs)] :
          memory = FloutImage(FloutProgram(pre \o script))

NextFlout ==
    \/ execute_single(<< "S" >>)
    \/ execute_program(<< "E" >>)
    \/ RunStep

SpecFlout == InitFlout /\ [][NextFlout]_vars

\* An executed CALL 0023H
IsFlout(e) ==
    /\ e.op = 205
    /\ Rd(e.pre.memory, e.pre.regs.PC + 1) = 35
    /\ Rd(e.pre.memory, e.pre.regs.PC + 2) = 0

\* The message an executed CALL 0023H hands over, the bytes DE points at
MsgOf(e) == MsgAt(e.pre.memory, Pair(e.pre, "D", "E"))

\* C33: every CALL 0023H, whatever its message and whether the file
\* operation succeeds or fails, then performs the normal CALL: the high byte
\* of PC+3 at SP-1, the low byte at SP-2, SP down by 2, PC = 0023H and 17
\* cycles added.
C33_FloutThenCall ==
    \A i \in Done :
        IsFlout(hist[i]) =>
            LET e == hist[i]
                ret == (e.pre.regs.PC + 3) % 65536
            IN  /\ Rd(e.post.memory, (e.pre.regs.SP - 1) % 65536) = ret \div 256
                /\ Rd(e.post.memory, (e.pre.regs.SP - 2) % 65536) = ret % 256
                /\ e.post.regs = [e.pre.regs EXCEPT !.SP = (@ - 2) % 65536, !.PC = 35]
                /\ e.post.periods = e.pre.periods + 17

\* A '$READ ' that delivers and one past the last line have both been
\* followed by the call
C33_Witness ==
    /\ \E i \in Done : IsFlout(hist[i]) /\ MsgOf(hist[i]) = MsgRead
                          /\ hist[i].post.fline = hist[i].pre.fline + 1
                          /\ hist[i].post.regs.PC = 35
    /\ \E i \in Done : IsFlout(hist[i]) /\ MsgOf(hist[i]) = MsgRead
                          /\ hist[i].pre.fline = 2
                          /\ hist[i].post.fline = 2
                          /\ hist[i].post.regs.PC = 35

\* The CALL 0023H that have been executed
FloutCalls == { i \in Done : IsFlout(hist[i]) }

\* The CALL 0023H executed last before step j, if there is one
FloutBefore(j) ==
    { i \in FloutCalls : i < j /\ \A k \in FloutCalls : ~ (i < k /\ k < j) }

\* A message FLOUT reads as a request: '$SIZE ', '$READ ' or ' LINE' and one
\* more character
Special(msg) ==
    \/ msg = MsgSize
    \/ msg = MsgRead
    \/ SubSeq(msg, 1, Len(msg) - 1) = MsgLine

\* A message less the space that ends it, the delimiter '$SIZE ' and '$READ '
\* end with
StripDelimiter(msg) ==
    IF msg # << >> /\ msg[Len(msg)] = 32 THEN SubSeq(msg, 1, Len(msg) - 1)
    ELSE msg

\* C34: after a CALL 0023H with the message '$SIZE ', the message of the next
\* CALL 0023H, when it is not itself a request, becomes the pending file name
\* with a trailing delimiter stripped; a FLOUT message that does not directly
\* follow '$SIZE ' leaves the pending file name as it was.
C34_FilenameStored ==
    \A j \in FloutCalls :
        LET after == \E i \in FloutBefore(j) : MsgOf(hist[i]) = MsgSize IN
        /\ (after /\ ~ Special(MsgOf(hist[j])))
              => hist[j].post.fname = StripDelimiter(MsgOf(hist[j]))
        /\ ~ after => hist[j].post.fname = hist[j].pre.fname

\* A ' LINE' request that FLOUT performs and that finds its file
LineSucceeds(e) ==
    /\ ~ e.pre.fload
    /\ SubSeq(MsgOf(e), 1, Len(MsgOf(e)) - 1) = MsgLine
    /\ e.pre.fname \in DOMAIN e.pre.disk

\* A '$READ ' request that FLOUT performs
ReadRequest(e) == ~ e.pre.fload /\ MsgOf(e) = MsgRead

\* A '$READ ' request that finds its file and a line at the cursor
ReadSucceeds(e) ==
    /\ ReadRequest(e)
    /\ e.pre.fname \in DOMAIN e.pre.disk
    /\ e.pre.fline < Len(e.pre.disk[e.pre.fname])

\* A line as it is delivered: a CR before every LF that does not follow one;
\* prev is the byte before the line's first
RECURSIVE CrLf(_, _)
CrLf(line, prev) ==
    IF line = << >> THEN << >>
    ELSE (IF Head(line) = 10 /\ prev # 13 THEN << 13 >> ELSE << >>)
            \o << Head(line) >> \o CrLf(Tail(line), Head(line))

\* The successful '$READ ' from the successful ' LINE' of step i up to step j
ReadsSince(i, j) ==
    { r \in FloutCalls : i < r /\ r <= j /\ ReadSucceeds(hist[r]) }

Pushed(e) ==
    LET ret == (e.pre.regs.PC + 3) % 65536 IN
    Wr(Wr(e.pre.memory, (e.pre.regs.SP - 1) % 65536, ret \div 256),
       (e.pre.regs.SP - 2) % 65536, ret % 256)

\* C39: while FLOUT awaits a file name after '$SIZE ', the next message is
\* taken as the name whatever it says: a '$READ ' or a ' LINE' message then
\* does no file operation and writes nothing at 0FD00H, 0FD03H or 0FC3EH, and
\* only another '$SIZE ' leaves FLOUT still awaiting the name.
C39_AwaitingConsumes ==
    \A j \in FloutCalls :
        hist[j].pre.fload =>
            LET e == hist[j] IN
            /\ e.post.fload = (MsgOf(e) = MsgSize)
            /\ e.post.fname = (IF MsgOf(e) = MsgSize THEN e.pre.fname ELSE MsgOf(e))
            /\ e.post.fline = e.pre.fline
            /\ e.post.fsize = e.pre.fsize
            /\ e.post.disk = e.pre.disk
            /\ e.post.memory = Pushed(e)

\* With 'f' pending and its cursor on a line, '$READ ' has arrived while a
\* name was awaited and has become the name
C39_Witness ==
    \E j \in FloutCalls :
        /\ hist[j].pre.fload /\ MsgOf(hist[j]) = MsgRead
        /\ hist[j].pre.fname = NameF /\ hist[j].pre.fline < 2
        /\ hist[j].post.fname = MsgRead

\* An executed JMP 0023H
IsSave(e) ==
    /\ e.op = 195
    /\ Rd(e.pre.memory, e.pre.regs.PC + 1) = 35
    /\ Rd(e.pre.memory, e.pre.regs.PC + 2) = 0

\* C36: a JMP 0023H at address p patches its own operand, memory[p+1] = 0AFH
\* and memory[p+2] = 00H, and changes no other memory cell.
C36_SavePatchesOperand ==
    \A i \in Done :
        IsSave(hist[i]) =>
            LET e == hist[i]
                p == e.pre.regs.PC
            IN  e.post.memory = Wr(Wr(e.pre.memory, p + 1, 175), p + 2, 0)

\* C37: a JMP 0023H ends with PC = 00AFH: the SAVE hook sets PC to 0023H and
\* stores 0AFH, 00H at 0024H and 0025H, the JMP then reads its target again
\* at the new PC; 10 cycles are added.
C37_SaveJumpsTo00AF ==
    \A i \in Done :
        IsSave(hist[i]) =>
            LET e == hist[i] IN
            /\ e.post.regs = [e.pre.regs EXCEPT !.PC = 175]
            /\ e.post.memory = Wr(Wr(e.pre.memory, 36, 175), 37, 0)
            /\ e.post.periods = e.pre.periods + 10
            /\ e.post.flags = e.pre.flags

\* A JMP 0023H at 0100H has run and left PC at 00AFH
C37_Witness ==
    \E i \in Done :
        /\ IsSave(hist[i])
        /\ hist[i].pre.regs.PC = 256
        /\ hist[i].post.regs.PC = 175
        /\ Rd(hist[i].post.memory, 36) = 175
        /\ Rd(hist[i].post.memory, 257) = 35

\* C38: whenever the monitor is at its prompt, after any sequence of E and S
\* commands, the invalid flag is False, so that an S onto an undefined opcode
\* does not keep a following E from executing the instructions at its start
\* address.
C38_InvalidClearAtPrompt ==
    (~ running /\ ~ crashed /\ exit_status = << >>) => invalid = FALSE

\* A record the memory has every cell for
WellFormed(str) == IsRecord(str) /\ RecAAAA(str) + RecLL(str) <= 65536

\* The first line that is no well-formed record or has LL = 0; one more than
\* the number of lines when there is none
FirstStop(lines) ==
    LET stops == { k \in 1..Len(lines) :
                      ~ WellFormed(lines[k]) \/ RecLL(lines[k]) = 0 }
    IN  IF stops = {} THEN Len(lines) + 1
        ELSE CHOOSE k \in stops : \A x \in stops : k <= x

\* The cells line n may have put bytes into before the load stopped at it
Touched(lines, n) ==
    IF n > Len(lines) THEN {}
    ELSE LET bytes == ParseHex(Substr(lines[n], 1, 3))
             addr == ParseHex(Substr(lines[n], 3, 7))
         IN  IF bytes.ok /\ addr.ok THEN addr.val..(addr.val + bytes.val - 1)
             ELSE {}

\* C40: a HEX file of well-formed records that ends without a record of
\* LL = 0 has every record written to memory, and the load then prints
\* 'Invalid or missing file'; whatever stops a load, the records written
\* before stay in memory.
C40_NoEndRecord ==
    [][ \A name \in { NameF, NameG, NameH } :
            (/\ load_file(<< "L", name >>) \/ main_load(name)
             /\ name \in DOMAIN disk)
            => LET lines == disk[name]
                   n == FirstStop(lines)
                   before == Image(memory, SubSeq(lines, 1, n - 1), 1)
               IN  /\ n = Len(lines) + 1
                      => /\ memory' = Image(memory, lines, 1)
                         /\ LoadFailed(<< "L", name >>)
                   /\ \A a \in ((DOMAIN memory) \cup (DOMAIN memory')
                                  \cup (DOMAIN before)) \ Touched(lines, n) :
                         Rd(memory', a) = Rd(before, a) ]_vars

\* f holds two records and no end record, and it has been loaded: AA of the
\* first and 11 of the second are in memory, and the load reports a failure
C40_Witness ==
    /\ cl = << "L", NameF >>
    /\ disk[NameF] = << RecData, RecOdd >>
    /\ Rd(memory, 256) = 170 /\ Rd(memory, 257) = 17
    /\ LoadFailed(cl)

====
